---- MODULE Spec2Model ----
(***************************************************************************)
(* Epoch Detector of the pooler (src/system_epoch_detector.py): the chunk  *)
(* generator, the polling loop of EpochDetectorProcess.run, the broadcast  *)
(* step, the signal handler and the cleanup wrapper around run.            *)
(***************************************************************************)
EXTENDS Integers, Sequences, FiniteSets, Bags, TLC

\* ------------------------------------------------------------------ bounds
\* Highest block height the epoch-authority endpoint reports.
MaxHeight == 2
\* Highest index and chunk size the chunk generator is driven with on its own.
MaxIdx == 5
MaxN == 3
\* How many times the process is killed and constructed again.
MaxRestarts == 1
\* How many store writes of _broadcast_epoch fail in one process.
MaxSetFailures == 1
\* Highest epoch id of a finalized snapshot.
MaxEpochId == 2
\* How many deliveries the distributors take from the broker.
MaxDeliveries == 4
\* Highest cost (limit_incr_by) of one call of check_rpc_rate_limit.
MaxCost == 2
\* Highest value a counter of the store is driven to.
MaxCount == 3
\* Most keys of the rate limiter and of anything else the store holds when the
\* keys are cleared.
MaxKeys == 10001
MaxOther == 2

VARIABLES
    \* chunks() driven on its own: its arguments, generator and yielded tuples
    chunks_args, chunks_gen, chunks_out,
    \* EpochDetectorProcess
    pc,                     \* position of the main thread
    last_processed_epoch,   \* self._last_processed_epoch
    redis_epoch,            \* value of key epoch_detector_last_processed_epoch
    rabbitmq_queue,         \* self._rabbitmq_queue: every item put by this process
    rabbitmq_thread,        \* self._rabbitmq_thread / self._rabbitmq_interactor
    shutdown_initiated,     \* self._shutdown_initiated
    current_epoch,          \* local current_epoch of run, while it is still read
    epoch_iter,             \* the generator the for loop of run iterates
    epoch,                  \* argument of _broadcast_epoch
    threshold,              \* settings.CONSENSUS.FALL_BEHIND_RESET_NUM_BLOCKS
    \* history
    cycle,                  \* branch the comparison of the current cycle took
    joined,                 \* self._rabbitmq_thread.join() returned in the wrapper
    save_attempted,         \* the wrapper issued its r.set
    set_failures,           \* failed r.set calls of _broadcast_epoch
    restarts,               \* kills followed by a new process
    broadcast_log,          \* bag of the epochs put on a queue, over all processes
    \* ProcessorDistributor
    instances,              \* the distributor processes that run
    dist,                   \* per process: position in the callback, delivery in
                            \* hand, loop indices, entries read, and as history
                            \* of the delivery in hand: messages enqueued (out),
                            \* acks, processing-log entries written (logged),
                            \* outcome of the warm-up, whether the message was
                            \* already in the sorted set (dup), how the handler
                            \* ended (result)
    aggregator_events,      \* sorted sets powerloom:aggregator:{project_type}:events
    deliveries,             \* deliveries taken from the broker so far
    \* check_rpc_rate_limit
    PARSED_LIMITS,          \* the limits parsed from settings.RPC.rate_limit
    buckets,                \* per limit: the counter key of the store, with its
                            \* expiry and, as history, the increments it took
    callers,                \* per process: position in check_rpc_rate_limit, its
                            \* arguments and locals, and as history the counters
                            \* hit returned (currents), which increment of its
                            \* window each was (ordinals), the kind of error met
                            \* and how the call ended (outcome, exc)
    \* SCRIPT_CLEAR_KEYS
    keyspace,               \* the keys the store holds
    clear                   \* the run of the script: its position, KEYS[1], its
                            \* locals keys, i and res, and as history the keys
                            \* the store held before and those of each del

chunk_vars == <<chunks_args, chunks_gen, chunks_out>>
detector_vars == <<pc, last_processed_epoch, redis_epoch, rabbitmq_queue,
                   rabbitmq_thread, shutdown_initiated, current_epoch,
                   epoch_iter, epoch, threshold, cycle, joined, save_attempted,
                   set_failures, restarts, broadcast_log>>
dist_vars == <<instances, dist, aggregator_events, deliveries>>
clear_vars == <<keyspace, clear>>
limiter_vars == <<PARSED_LIMITS, buckets, callers, clear_vars>>
vars == <<chunk_vars, detector_vars, dist_vars, limiter_vars>>

\* SCRIPT_CLEAR_KEYS before it is run.
NoClear ==
    [pc |-> "idle", pattern |-> <<>>, keys |-> <<>>, i |-> 1, res |-> 0,
     before |-> {}, batches |-> <<>>]

\* The script is not run and the keys of the store are left out.
ClearIdle ==
    /\ keyspace = {}
    /\ clear = NoClear

\* No process calls check_rpc_rate_limit.
CallersIdle ==
    /\ PARSED_LIMITS = <<>>
    /\ buckets = <<>>
    /\ callers = <<>>

\* No process uses the rate limiter.
LimiterIdle ==
    /\ CallersIdle
    /\ ClearIdle

\* ------------------------------------------------------------------ chunks
\* State of the generator before its first next(): range(start_idx, stop_idx + 1, n)
chunks(start_idx, stop_idx, n) ==
    [i |-> start_idx, stop_idx |-> stop_idx, n |-> n, run_idx |-> 0]

\* A generator that is not there.
NoIter == [i |-> 0, stop_idx |-> 0, n |-> 0, run_idx |-> 0]

\* The for loop has no further i, or the early return of line 37 is taken.
ChunksExhausted(g) ==
    \/ ~(g.i < g.stop_idx + 1)
    \/ g.i = g.stop_idx + 1

ChunkEndNoTruncate(i, n, stop_idx) == i + n - 1

\* end_idx = i + n - 1 if i + n - 1 <= stop_idx else stop_idx
ChunkEnd(i, n, stop_idx) ==
    IF i + n - 1 <= stop_idx THEN i + n - 1 ELSE stop_idx

\* The tuple the generator yields next: (begin_idx, end_idx, run_idx)
ChunksYield(g) == <<g.i, ChunkEnd(g.i, g.n, g.stop_idx), g.run_idx + 1>>

\* The generator after that yield.
ChunksAdvance(g) == [g EXCEPT !.i = g.i + g.n, !.run_idx = g.run_idx + 1]

NoArgs == [start_idx |-> 0, stop_idx |-> 0, n |-> 0]

ChunksIdle ==
    /\ chunks_args = NoArgs
    /\ chunks_gen = NoIter
    /\ chunks_out = <<>>

\* One next() on the generator that yields.
ChunksNext ==
    /\ chunks_gen # NoIter
    /\ ~ChunksExhausted(chunks_gen)
    /\ chunks_out' = Append(chunks_out, ChunksYield(chunks_gen))
    /\ chunks_gen' = ChunksAdvance(chunks_gen)
    /\ UNCHANGED <<chunks_args, detector_vars, dist_vars, limiter_vars>>

\* The next() that ends the iteration.
ChunksReturn ==
    /\ chunks_gen # NoIter
    /\ ChunksExhausted(chunks_gen)
    /\ chunks_gen' = NoIter
    /\ UNCHANGED <<chunks_args, chunks_out, detector_vars, dist_vars, limiter_vars>>

\* ---------------------------------------------------------------- detector
\* self._last_processed_epoch = None, and a key the store does not hold.
\* An epoch dict is modelled by its begin and end; its broadcast_id is a fresh
\* uuid that no step of the detector reads.
None == [begin |-> 0, end |-> 0]

\* What the epoch-authority endpoint may answer: any epoch with begin <= end.
NetworkEpochs ==
    {e \in [begin : 1..MaxHeight, end : 1..MaxHeight] : e.begin <= e.end}

\* Configured values of FALL_BEHIND_RESET_NUM_BLOCKS: negative, zero (any gap
\* counts as falling behind) and one no gap exceeds.
Thresholds == {-2, 0, MaxHeight}

\* self._rabbitmq_interactor has been assigned by the interactor thread.
HasInteractor == rabbitmq_thread \in {"running", "stopping", "dead"}

\* Where _broadcast_epoch returns to: the for loop, or the sleep of line 194.
Ret == IF epoch_iter = NoIter THEN "sleep" ELSE "next_chunk"

DetectorInit ==
    /\ pc = "init"
    /\ last_processed_epoch = None
    /\ redis_epoch = None
    /\ rabbitmq_queue = <<>>
    /\ rabbitmq_thread = "unstarted"
    /\ shutdown_initiated = FALSE
    /\ current_epoch = None
    /\ epoch_iter = NoIter
    /\ epoch = None
    /\ threshold \in Thresholds
    /\ cycle = "none"
    /\ joined = FALSE
    /\ save_attempted = FALSE
    /\ set_failures = 0
    /\ restarts = 0
    /\ broadcast_log = EmptyBag

DetectorIdle ==
    /\ DetectorInit
    /\ threshold = MaxHeight

\* run, lines 137-139: the signal handlers are installed.
Run ==
    /\ pc = "init"
    /\ pc' = "start_thread"
    /\ UNCHANGED <<chunk_vars, dist_vars, limiter_vars, last_processed_epoch, redis_epoch, rabbitmq_queue,
                   rabbitmq_thread, shutdown_initiated, current_epoch, epoch_iter,
                   epoch, threshold, cycle, joined, save_attempted, set_failures,
                   restarts, broadcast_log>>

\* run, lines 140-141: the interactor thread is created and started.
StartThread ==
    /\ pc = "start_thread"
    /\ pc' = "fetch"
    /\ rabbitmq_thread' = "started"
    /\ UNCHANGED <<chunk_vars, dist_vars, limiter_vars, last_processed_epoch, redis_epoch, rabbitmq_queue,
                   shutdown_initiated, current_epoch, epoch_iter, epoch, threshold,
                   cycle, joined, save_attempted, set_failures, restarts,
                   broadcast_log>>

\* _interactor_wrapper: the thread assigns self._rabbitmq_interactor and blocks
\* in its run().
InteractorWrapper ==
    /\ rabbitmq_thread = "started"
    /\ rabbitmq_thread' = "running"
    /\ UNCHANGED <<chunk_vars, dist_vars, limiter_vars, pc, last_processed_epoch, redis_epoch,
                   rabbitmq_queue, shutdown_initiated, current_epoch, epoch_iter,
                   epoch, threshold, cycle, joined, save_attempted, set_failures,
                   restarts, broadcast_log>>

\* The interactor's run() returns once stop() was called, and the thread ends.
InteractorStopped ==
    /\ rabbitmq_thread = "stopping"
    /\ rabbitmq_thread' = "dead"
    /\ UNCHANGED <<chunk_vars, dist_vars, limiter_vars, pc, last_processed_epoch, redis_epoch,
                   rabbitmq_queue, shutdown_initiated, current_epoch, epoch_iter,
                   epoch, threshold, cycle, joined, save_attempted, set_failures,
                   restarts, broadcast_log>>

\* requests.get answers 200 with an epoch (lines 145, 154-156).
FetchOk ==
    /\ pc = "fetch"
    /\ \E e \in NetworkEpochs : current_epoch' = e
    /\ pc' = "load"
    /\ UNCHANGED <<chunk_vars, dist_vars, limiter_vars, last_processed_epoch, redis_epoch, rabbitmq_queue,
                   rabbitmq_thread, shutdown_initiated, epoch_iter, epoch,
                   threshold, cycle, joined, save_attempted, set_failures, restarts,
                   broadcast_log>>

\* requests.get answers another status: the sleep of line 148, inside the try.
FetchNon200 ==
    /\ pc = "fetch"
    /\ pc' = "retry_sleep"
    /\ UNCHANGED <<chunk_vars, dist_vars, limiter_vars, last_processed_epoch, redis_epoch, rabbitmq_queue,
                   rabbitmq_thread, shutdown_initiated, current_epoch, epoch_iter,
                   epoch, threshold, cycle, joined, save_attempted, set_failures,
                   restarts, broadcast_log>>

\* The sleep of line 148 ends: continue.
RetrySleepDone ==
    /\ pc = "retry_sleep"
    /\ pc' = "fetch"
    /\ UNCHANGED <<chunk_vars, dist_vars, limiter_vars, last_processed_epoch, redis_epoch, rabbitmq_queue,
                   rabbitmq_thread, shutdown_initiated, current_epoch, epoch_iter,
                   epoch, threshold, cycle, joined, save_attempted, set_failures,
                   restarts, broadcast_log>>

\* requests.get raises and no except clause is around it: run ends in the wrapper.
FetchErrorRaises ==
    /\ pc = "fetch"
    /\ pc' = "cleanup_join"
    /\ UNCHANGED <<chunk_vars, dist_vars, limiter_vars, last_processed_epoch, redis_epoch, rabbitmq_queue,
                   rabbitmq_thread, shutdown_initiated, current_epoch, epoch_iter,
                   epoch, threshold, cycle, joined, save_attempted, set_failures,
                   restarts, broadcast_log>>

\* requests.get raises: the bare except of line 150, then the sleep of line 152.
FetchError ==
    /\ pc = "fetch"
    /\ pc' = "sleep"
    /\ UNCHANGED <<chunk_vars, dist_vars, limiter_vars, last_processed_epoch, redis_epoch, rabbitmq_queue,
                   rabbitmq_thread, shutdown_initiated, current_epoch, epoch_iter,
                   epoch, threshold, cycle, joined, save_attempted, set_failures,
                   restarts, broadcast_log>>

\* A sleep(POLLING_INTERVAL) outside the try (lines 152, 168, 194) ends.
SleepDone ==
    /\ pc = "sleep"
    /\ pc' = "fetch"
    /\ cycle' = "none"
    /\ UNCHANGED <<chunk_vars, dist_vars, limiter_vars, last_processed_epoch, redis_epoch, rabbitmq_queue,
                   rabbitmq_thread, shutdown_initiated, current_epoch, epoch_iter,
                   epoch, threshold, joined, save_attempted, set_failures,
                   restarts, broadcast_log>>

\* Lines 158-163 without the test of line 158: the store is read every cycle.
LoadCheckpointEveryCycle(mem, stored) ==
    IF stored # None THEN stored ELSE mem

\* Lines 158-163: the store is read only when no state is locally present.
LoadCheckpoint(mem, stored) ==
    IF mem = None
    THEN (IF stored # None THEN stored ELSE mem)
    ELSE mem

Load ==
    /\ pc = "load"
    /\ last_processed_epoch' = LoadCheckpoint(last_processed_epoch, redis_epoch)
    /\ pc' = "compare"
    /\ UNCHANGED <<chunk_vars, dist_vars, limiter_vars, redis_epoch, rabbitmq_queue, rabbitmq_thread,
                   shutdown_initiated, current_epoch, epoch_iter, epoch, threshold,
                   cycle, joined, save_attempted, set_failures, restarts,
                   broadcast_log>>

\* The comparison of line 166 made on the whole epochs.
CompareBranchWholeEpoch(mem, cur, th) ==
    IF mem # None
    THEN IF mem = cur THEN "same"
         ELSE IF cur.end - mem.end > th THEN "fall_behind"
         ELSE IF mem.end > cur.end THEN "regression"
         ELSE "catch_up"
    ELSE "first"

\* Lines 179-181 left out.
CompareBranchNoRegression(mem, cur, th) ==
    IF mem # None
    THEN IF mem.end = cur.end THEN "same"
         ELSE IF cur.end - mem.end > th THEN "fall_behind"
         ELSE "catch_up"
    ELSE "first"

\* Which way lines 165-183 go for in-memory checkpoint mem, network epoch cur
\* and fall-behind threshold th.
CompareBranch(mem, cur, th) ==
    IF mem # None
    THEN IF mem.end = cur.end THEN "same"
         ELSE IF cur.end - mem.end > th THEN "fall_behind"
         ELSE IF mem.end > cur.end THEN "regression"
         ELSE "catch_up"
    ELSE "first"

\* The branches that raise GenericExitOnSignal from inside the loop.
FatalBranches == {"fall_behind", "regression"}

\* Lines 165-183 and 189-191.
Compare ==
    /\ pc = "compare"
    /\ LET br == CompareBranch(last_processed_epoch, current_epoch, threshold)
       IN /\ cycle' = br
          /\ pc' = CASE br = "same" -> "sleep"
                     [] br \in FatalBranches -> "cleanup_join"
                     [] br = "catch_up" -> "next_chunk"
                     [] OTHER -> "bc_put"
          /\ epoch_iter' =
                IF br = "catch_up"
                THEN chunks(last_processed_epoch.end, current_epoch.end,
                            current_epoch.end - current_epoch.begin + 1)
                ELSE NoIter
          /\ epoch' = IF br = "first" THEN current_epoch ELSE None
          \* nothing reads current_epoch again before the next fetch assigns it
          /\ current_epoch' = None
    /\ UNCHANGED <<chunk_vars, dist_vars, limiter_vars, last_processed_epoch, redis_epoch, rabbitmq_queue,
                   rabbitmq_thread, shutdown_initiated, threshold, joined,
                   save_attempted, set_failures, restarts, broadcast_log>>

\* Line 183-184: the for loop takes the next chunk.
NextChunk ==
    /\ pc = "next_chunk"
    /\ ~ChunksExhausted(epoch_iter)
    /\ epoch' = [begin |-> ChunksYield(epoch_iter)[1],
                 end |-> ChunksYield(epoch_iter)[2]]
    /\ epoch_iter' = ChunksAdvance(epoch_iter)
    /\ pc' = "bc_put"
    /\ UNCHANGED <<chunk_vars, dist_vars, limiter_vars, last_processed_epoch, redis_epoch, rabbitmq_queue,
                   rabbitmq_thread, shutdown_initiated, current_epoch, threshold,
                   cycle, joined, save_attempted, set_failures, restarts,
                   broadcast_log>>

\* Line 183: the generator is exhausted, the while loop goes on with the fetch.
ChunksDone ==
    /\ pc = "next_chunk"
    /\ ChunksExhausted(epoch_iter)
    /\ epoch_iter' = NoIter
    /\ pc' = "fetch"
    /\ cycle' = "none"
    /\ UNCHANGED <<chunk_vars, dist_vars, limiter_vars, last_processed_epoch, redis_epoch, rabbitmq_queue,
                   rabbitmq_thread, shutdown_initiated, current_epoch, epoch,
                   threshold, joined, save_attempted, set_failures, restarts,
                   broadcast_log>>

\* _broadcast_epoch without line 122: nothing is put on the queue.
BroadcastPutSkipped ==
    /\ pc = "bc_put"
    /\ pc' = "bc_mem"
    /\ UNCHANGED <<chunk_vars, dist_vars, limiter_vars, last_processed_epoch, redis_epoch, rabbitmq_queue,
                   rabbitmq_thread, shutdown_initiated, current_epoch, epoch_iter, epoch,
                   threshold, cycle, joined, save_attempted, set_failures, restarts,
                   broadcast_log>>

\* _broadcast_epoch, lines 119-122: the message is put on the queue.
BroadcastPut ==
    /\ pc = "bc_put"
    /\ rabbitmq_queue' = Append(rabbitmq_queue, epoch)
    /\ broadcast_log' = broadcast_log (+) SetToBag({epoch})
    /\ pc' = "bc_mem"
    /\ UNCHANGED <<chunk_vars, dist_vars, limiter_vars, last_processed_epoch, redis_epoch, rabbitmq_thread,
                   shutdown_initiated, current_epoch, epoch_iter, epoch, threshold,
                   cycle, joined, save_attempted, set_failures, restarts>>

\* _broadcast_epoch, line 123.
BroadcastSetMemory ==
    /\ pc = "bc_mem"
    /\ last_processed_epoch' = epoch
    /\ pc' = "bc_store"
    /\ UNCHANGED <<chunk_vars, dist_vars, limiter_vars, redis_epoch, rabbitmq_queue, rabbitmq_thread,
                   shutdown_initiated, current_epoch, epoch_iter, epoch, threshold,
                   cycle, joined, save_attempted, set_failures, restarts,
                   broadcast_log>>

\* An r.set that loses the key when it raises.
RedisSetDropsOnFailure(stored, e, ok) ==
    IF ok THEN e ELSE None

\* What the store holds after r.set(key, json.dumps(e)) that succeeded or raised.
RedisSet(stored, e, ok) ==
    IF ok THEN e ELSE stored

\* _broadcast_epoch, lines 124-128: r.set succeeds.
BroadcastStoreOk ==
    /\ pc = "bc_store"
    /\ redis_epoch' = RedisSet(redis_epoch, epoch, TRUE)
    /\ epoch' = None
    /\ pc' = Ret
    /\ UNCHANGED <<chunk_vars, dist_vars, limiter_vars, last_processed_epoch, rabbitmq_queue,
                   rabbitmq_thread, shutdown_initiated, current_epoch, epoch_iter,
                   threshold, cycle, joined, save_attempted, set_failures, restarts,
                   broadcast_log>>

\* r.set raises and nothing catches it inside _broadcast_epoch: line 62, exit.
BroadcastStoreFailRaises ==
    /\ pc = "bc_store"
    /\ set_failures < MaxSetFailures
    /\ set_failures' = set_failures + 1
    /\ pc' = "exited"
    /\ current_epoch' = None
    /\ epoch_iter' = NoIter
    /\ epoch' = None
    /\ UNCHANGED <<chunk_vars, dist_vars, limiter_vars, last_processed_epoch, redis_epoch, rabbitmq_queue,
                   rabbitmq_thread, shutdown_initiated, threshold, cycle, joined,
                   save_attempted, restarts, broadcast_log>>

\* _broadcast_epoch, lines 129-130: r.set raises, the bare except logs.
BroadcastStoreFail ==
    /\ pc = "bc_store"
    /\ set_failures < MaxSetFailures
    /\ set_failures' = set_failures + 1
    /\ redis_epoch' = RedisSet(redis_epoch, epoch, FALSE)
    /\ epoch' = None
    /\ pc' = Ret
    /\ UNCHANGED <<chunk_vars, dist_vars, limiter_vars, last_processed_epoch, rabbitmq_queue,
                   rabbitmq_thread, shutdown_initiated, current_epoch, epoch_iter,
                   threshold, cycle, joined, save_attempted, restarts,
                   broadcast_log>>

\* Wrapper, lines 53-55: join() returns when the interactor thread has ended.
CleanupJoin ==
    /\ pc = "cleanup_join"
    /\ rabbitmq_thread = "dead"
    /\ joined' = TRUE
    /\ pc' = "cleanup_save"
    /\ UNCHANGED <<chunk_vars, dist_vars, limiter_vars, last_processed_epoch, redis_epoch, rabbitmq_queue,
                   rabbitmq_thread, shutdown_initiated, current_epoch, epoch_iter,
                   epoch, threshold, cycle, save_attempted, set_failures, restarts,
                   broadcast_log>>

\* Wrapper, lines 56-66: the in-memory checkpoint, if any, is written (the write
\* may raise, which line 60 catches), then sys.exit(0).
CleanupSave ==
    /\ pc = "cleanup_save"
    /\ save_attempted' = (last_processed_epoch # None)
    /\ \E ok \in (IF last_processed_epoch # None THEN BOOLEAN ELSE {FALSE}) :
          redis_epoch' = RedisSet(redis_epoch, last_processed_epoch, ok)
    /\ pc' = "exited"
    /\ UNCHANGED <<chunk_vars, dist_vars, limiter_vars, last_processed_epoch, rabbitmq_queue,
                   rabbitmq_thread, shutdown_initiated, current_epoch, epoch_iter,
                   epoch, threshold, cycle, joined, set_failures, restarts,
                   broadcast_log>>

\* Where the exception raised by the signal handler takes the main thread from
\* position at: the bare excepts of lines 150 and 129 swallow it, the inner try of
\* the wrapper ends in the finally, and anywhere else in run GenericExitOnSignal
\* reaches line 51, while the AttributeError of a missing interactor reaches
\* line 62.
SignalLanding(at, ret, has) ==
    CASE at \in {"fetch", "retry_sleep"} -> "sleep"
      [] at = "bc_store" -> ret
      [] at \in {"cleanup_join", "cleanup_save"} -> "exited"
      [] OTHER -> IF has THEN "cleanup_join" ELSE "exited"

\* The r.set the main thread is inside of, if any.
SetInProgress ==
    CASE pc = "bc_store" -> epoch
      [] pc = "cleanup_save" -> last_processed_epoch
      [] OTHER -> None

\* _generic_exit_handler on SIGINT, SIGTERM or SIGQUIT, run by the main thread
\* wherever it is once the handlers are installed. A signal after
\* _shutdown_initiated was set returns without effect.
Signal ==
    /\ pc \notin {"init", "exited"}
    /\ ~shutdown_initiated
    /\ shutdown_initiated' = TRUE
    /\ rabbitmq_thread' =
          IF rabbitmq_thread = "running" THEN "stopping" ELSE rabbitmq_thread
    /\ pc' = SignalLanding(pc, Ret, HasInteractor)
    /\ \E written \in (IF SetInProgress # None THEN BOOLEAN ELSE {FALSE}) :
          redis_epoch' = RedisSet(redis_epoch, SetInProgress, written)
    /\ IF pc' \in {"cleanup_join", "exited"}
       THEN /\ current_epoch' = None
            /\ epoch_iter' = NoIter
            /\ epoch' = None
       ELSE /\ epoch' = IF pc = "bc_store" THEN None ELSE epoch
            /\ UNCHANGED <<current_epoch, epoch_iter>>
    /\ UNCHANGED <<chunk_vars, dist_vars, limiter_vars, last_processed_epoch, rabbitmq_queue, threshold,
                   cycle, joined, save_attempted, set_failures, restarts,
                   broadcast_log>>

\* The process is killed at any point and a new one is constructed (__init__):
\* only the store and what was already handed to the broker survive.
Restart ==
    /\ pc # "init"
    /\ restarts < MaxRestarts
    /\ restarts' = restarts + 1
    /\ pc' = "init"
    /\ last_processed_epoch' = None
    /\ rabbitmq_queue' = <<>>
    /\ rabbitmq_thread' = "unstarted"
    /\ shutdown_initiated' = FALSE
    /\ current_epoch' = None
    /\ epoch_iter' = NoIter
    /\ epoch' = None
    /\ cycle' = "none"
    /\ joined' = FALSE
    /\ save_attempted' = FALSE
    /\ set_failures' = 0
    /\ UNCHANGED <<chunk_vars, dist_vars, limiter_vars, redis_epoch, threshold, broadcast_log>>

\* ------------------------------------------------------------- distributor
\* Processor Distributor (src/pooler/processor_distributor.py): the callback
\* _distribute_callbacks of one or more distributor processes that consume
\* deliveries one at a time and share the store.

\* str.lower() on the characters contract addresses are written with.
LowerChar ==
    [c \in {"0", "x", "a", "b", "A", "B"} |->
        CASE c = "A" -> "a" [] c = "B" -> "b" [] OTHER -> c]

lower(str) == [k \in DOMAIN str |-> LowerChar[str[k]]]

\* Python's 'sub in str' on strings: sub occurs in str as a contiguous part.
Contains(sub, str) ==
    \E k \in 0..(Len(str) - Len(sub)) : SubSeq(str, k + 1, k + Len(sub)) = sub

\* The elements of a list.
Range(seq) == {seq[k] : k \in DOMAIN seq}

\* projects_config of the deployment: two project types, three contracts, one
\* of them written in mixed case and one contract under both types.
projects_config ==
    << [project_type |-> "pair_total_reserves",
        projects |-> << <<"0", "x", "A", "b">>, <<"0", "x", "b">> >>],
       [project_type |-> "trade_volume",
        projects |-> << <<"0", "x", "B">> >>] >>

\* Project ids of finalized snapshots; the last contains the first as a part.
ProjectA == <<"a">>
ProjectB == <<"b">>
ProjectC == <<"c">>
ProjectXA == <<"x", "a">>
ProjectIds == {ProjectA, ProjectB, ProjectC, ProjectXA}

\* aggregator_config of the deployment: a multi-project aggregator that waits
\* for three projects, followed by a single-project aggregator.
aggregator_config ==
    << [project_type |-> "aggregate_multi", aggregate_on |-> "multi_project",
        projects_to_wait_for |-> <<ProjectA, ProjectB, ProjectC>>,
        filters |-> [projectId |-> <<>>]],
       [project_type |-> "aggregate_single", aggregate_on |-> "single_project",
        projects_to_wait_for |-> <<>>,
        filters |-> [projectId |-> ProjectA]] >>

AggregatorTypes == {aggregator_config[k].project_type : k \in DOMAIN aggregator_config}

\* Routing keys of deliveries, by their part after the namespace and instance id.
RoutingKeys == {"EpochReleased", "SnapshotFinalized", "IndexFinalized"}

\* model.json(): the values of the fields of a message, in the order of the fields.
EpochBroadcastJson(m) == <<m.begin, m.end, m.epochId, m.broadcastId>>
FinalizedJson(m) == <<m.epochId, m.projectId, m.snapshotCid>>

\* Messages the upstream components publish.
EpochBroadcasts ==
    {[begin |-> 1, end |-> 2, epochId |-> 1, broadcastId |-> "b1"],
     [begin |-> 3, end |-> 4, epochId |-> 2, broadcastId |-> "b2"]}

SnapshotCids == {"cid1", "cid2"}

FinalizedMessages ==
    [epochId : 1..MaxEpochId, projectId : ProjectIds, snapshotCid : SnapshotCids]

\* Bodies of the deliveries with a routing key: the serialized messages that
\* are published with it, and one body that is no message at all.
Bodies(key) ==
    (CASE key = "EpochReleased" -> {EpochBroadcastJson(m) : m \in EpochBroadcasts}
       [] key = "SnapshotFinalized" -> {FinalizedJson(m) : m \in FinalizedMessages}
       [] OTHER -> {})
        \cup {<<>>}

\* Model.parse_raw(body): raises ValidationError unless the body has the fields
\* of the model.
EpochBroadcastValid(body) == Len(body) = 4
EpochBroadcastParseRaw(body) ==
    [begin |-> body[1], end |-> body[2], epochId |-> body[3],
     broadcastId |-> body[4]]

FinalizedValid(body) == Len(body) = 3
FinalizedParseRaw(body) ==
    [epochId |-> body[1], projectId |-> body[2], snapshotCid |-> body[3]]

\* A Redis sorted set is a bag of [member, score] entries in which ZADD keeps
\* every member once.
ZAddKeepsDuplicates(zset, member, score) ==
    zset (+) SetToBag({[member |-> member, score |-> score]})

ZAdd(zset, member, score) ==
    LET others == {e \in BagToSet(zset) : e.member # member}
    IN [e \in others |-> zset[e]]
           (+) SetToBag({[member |-> member, score |-> score]})

\* ZRANGEBYSCORE min max: the members whose score lies in min..max.
ZRangeByScore(zset, min, max) ==
    LET hit == {e \in BagToSet(zset) : min <= e.score /\ e.score <= max}
    IN [m \in {e.member : e \in hit} |->
            zset[CHOOSE e \in hit : e.member = m]]

\* ZREMRANGEBYSCORE from the lowest score up to max.
ZRemRangeUpToScore(zset, min, max) ==
    LET keep == {e \in BagToSet(zset) : e.score > max}
    IN [e \in keep |-> zset[e]]

\* ZREMRANGEBYSCORE min max.
ZRemRangeByScore(zset, min, max) ==
    LET keep == {e \in BagToSet(zset) : e.score < min \/ e.score > max}
    IN [e \in keep |-> zset[e]]

\* A distributor that is between two deliveries and has handled none.
Fresh ==
    [pc |-> "idle", routing_key |-> "", body |-> <<>>, ci |-> 1, pi |-> 1,
     events |-> EmptyBag, out |-> <<>>, acks |-> 0, logged |-> 0,
     warm_up |-> "none", dup |-> FALSE, result |-> "none"]

\* No distributor runs.
DistributorIdle ==
    /\ instances = {}
    /\ dist = <<>>
    /\ aggregator_events = [t \in AggregatorTypes |-> EmptyBag]
    /\ deliveries = 0

\* One distributor, nothing in the store.
DistributorInit ==
    /\ ChunksIdle
    /\ DetectorIdle
    /\ LimiterIdle
    /\ instances = {"d1"}
    /\ dist = [i \in instances |-> Fresh]
    /\ aggregator_events = [t \in AggregatorTypes |-> EmptyBag]
    /\ deliveries = 0

\* The message object the handler parsed from the body of the delivery in hand.
EpochMsg(self) == EpochBroadcastParseRaw(dist[self].body)
FinalizedMsg(self) == FinalizedParseRaw(dist[self].body)

\* model.json() of the messages the distributor builds.
SnapshotProcessJson(m) == <<m.begin, m.end, m.epochId, m.contract, m.broadcastId>>
PayloadCommitJson(m) == <<FinalizedJson(m.message), m.web3Storage, m.sourceChainId>>
AggregateJson(m) == <<m.messages, m.broadcastId>>

\* enqueue_msg_delivery of the interactor: the message is handed to the broker.
enqueue_msg_delivery(d, exchange, routing_key, msg_body) ==
    [d EXCEPT !.out = Append(@, [exchange |-> exchange,
                                 routing_key |-> routing_key,
                                 msg_body |-> msg_body])]

\* The handler returned, or an exception left it.
Returned(d) == [d EXCEPT !.pc = "idle", !.result = "returned"]
Raised(d) == [d EXCEPT !.pc = "idle", !.result = "raised"]

\* _send_message_for_processing (lines 125-157): the message is enqueued on the
\* callbacks exchange, then an entry is added to the processing log of the
\* store; when that zadd raises (ok false) the exception leaves the handler.
send_message_for_processing(d, msg_body, routing_key, ok) ==
    LET sent == enqueue_msg_delivery(d, "callbacks", routing_key, msg_body)
    IN IF ok THEN [sent EXCEPT !.logged = @ + 1] ELSE Raised(sent)

\* The broker hands the next delivery to _distribute_callbacks (lines 295-306).
Deliver(self) ==
    /\ dist[self].pc = "idle"
    /\ deliveries < MaxDeliveries
    /\ deliveries' = deliveries + 1
    /\ \E key \in RoutingKeys : \E body \in Bodies(key) :
          dist' = [dist EXCEPT ![self] =
                      [Fresh EXCEPT !.pc = "forward", !.routing_key = key,
                                    !.body = body]]
    /\ UNCHANGED <<chunk_vars, detector_vars, limiter_vars, instances, aggregator_events>>

\* Lines 310-316 with _build_and_forward_to_payload_commit_queue (159-192):
\* a SnapshotFinalized delivery is parsed, outside any try, and forwarded to
\* the commit-payload exchange.
ForwardToPayloadCommit(self) ==
    /\ dist[self].pc = "forward"
    /\ LET d == dist[self]
           process_unit == [message |-> FinalizedMsg(self), web3Storage |-> TRUE,
                            sourceChainId |-> "chain_id"]
       IN dist' = [dist EXCEPT ![self] =
            IF d.routing_key # "SnapshotFinalized"
            THEN [d EXCEPT !.pc = "route"]
            ELSE IF ~FinalizedValid(d.body)
            THEN Raised(d)
            ELSE [enqueue_msg_delivery(d, "commit_payload", <<"Finalized">>,
                                       PayloadCommitJson(process_unit))
                     EXCEPT !.pc = "route"]]
    /\ UNCHANGED <<chunk_vars, detector_vars, limiter_vars, instances, aggregator_events,
                   deliveries>>

\* Lines 318-340 with a basic_ack in the else branch.
DistributeCallbacksAcksUnknown(self) ==
    /\ dist[self].pc = "route"
    /\ LET d == dist[self]
       IN dist' = [dist EXCEPT ![self] =
            CASE d.routing_key = "EpochReleased" -> [d EXCEPT !.pc = "snapshotting"]
              [] d.routing_key = "SnapshotFinalized" -> [d EXCEPT !.pc = "aggregate"]
              [] OTHER -> Returned([d EXCEPT !.acks = @ + 1])]
    /\ UNCHANGED <<chunk_vars, detector_vars, limiter_vars, instances, aggregator_events,
                   deliveries>>

\* Lines 318-340 without the elif of lines 326-333.
DistributeCallbacksNoAggregate(self) ==
    /\ dist[self].pc = "route"
    /\ LET d == dist[self]
       IN dist' = [dist EXCEPT ![self] =
            CASE d.routing_key = "EpochReleased" -> [d EXCEPT !.pc = "snapshotting"]
              [] OTHER -> Returned(d)]
    /\ UNCHANGED <<chunk_vars, detector_vars, limiter_vars, instances, aggregator_events,
                   deliveries>>

\* Lines 318-340: the if / elif / else on the routing key.
DistributeCallbacks(self) ==
    /\ dist[self].pc = "route"
    /\ LET d == dist[self]
       IN dist' = [dist EXCEPT ![self] =
            CASE d.routing_key = "EpochReleased" -> [d EXCEPT !.pc = "snapshotting"]
              [] d.routing_key = "SnapshotFinalized" -> [d EXCEPT !.pc = "aggregate"]
              [] OTHER -> Returned(d)]
    /\ UNCHANGED <<chunk_vars, detector_vars, limiter_vars, instances, aggregator_events,
                   deliveries>>

\* _distribute_callbacks_snapshotting, lines 85-99: parse_raw inside the try.
SnapshottingParse(self) ==
    /\ dist[self].pc = "snapshotting"
    /\ LET d == dist[self]
       IN dist' = [dist EXCEPT ![self] =
            IF EpochBroadcastValid(d.body)
            THEN [d EXCEPT !.pc = "warm_up"]
            ELSE Returned(d)]
    /\ UNCHANGED <<chunk_vars, detector_vars, limiter_vars, instances, aggregator_events,
                   deliveries>>

\* The warm-up raised and nothing in _warm_up_cache_for_epoch_data catches it.
WarmUpCacheRaises(self) ==
    /\ dist[self].pc = "warm_up"
    /\ \E ok \in BOOLEAN :
          dist' = [dist EXCEPT ![self] =
            IF ok
            THEN [@ EXCEPT !.warm_up = "done", !.pc = "fan_out"]
            ELSE Raised([@ EXCEPT !.warm_up = "raised"])]
    /\ UNCHANGED <<chunk_vars, detector_vars, limiter_vars, instances, aggregator_events,
                   deliveries>>

\* Lines 101-103 with _warm_up_cache_for_epoch_data (56-82): the warm-up
\* succeeds, or raises and the except of line 74 logs a warning.
WarmUpCache(self) ==
    /\ dist[self].pc = "warm_up"
    /\ \E ok \in BOOLEAN :
          dist' = [dist EXCEPT ![self] =
            [@ EXCEPT !.warm_up = IF ok THEN "done" ELSE "raised",
                      !.pc = "fan_out"]]
    /\ UNCHANGED <<chunk_vars, detector_vars, limiter_vars, instances, aggregator_events,
                   deliveries>>

\* The outer loop ends after its first project type.
FanOutFirstTypeOnly(self) ==
    /\ dist[self].pc = "fan_out"
    /\ dist[self].ci <= Len(projects_config)
    /\ dist[self].pi > Len(projects_config[dist[self].ci].projects)
    /\ dist' = [dist EXCEPT ![self] =
                  [@ EXCEPT !.ci = Len(projects_config) + 1, !.pi = 1]]
    /\ UNCHANGED <<chunk_vars, detector_vars, limiter_vars, instances, aggregator_events,
                   deliveries>>

\* Line 104-105: the outer loop takes the next project type.
FanOutNextType(self) ==
    /\ dist[self].pc = "fan_out"
    /\ dist[self].ci <= Len(projects_config)
    /\ dist[self].pi > Len(projects_config[dist[self].ci].projects)
    /\ dist' = [dist EXCEPT ![self] = [@ EXCEPT !.ci = @ + 1, !.pi = 1]]
    /\ UNCHANGED <<chunk_vars, detector_vars, limiter_vars, instances, aggregator_events,
                   deliveries>>

\* Lines 107-114: the unit of work for one project of one broadcast.
ProcessUnit(msg_obj, project) ==
    [begin |-> msg_obj.begin, end |-> msg_obj.end, epochId |-> msg_obj.epochId,
     contract |-> lower(project), broadcastId |-> msg_obj.broadcastId]

\* Lines 106-119: one pass of the inner loop.
FanOutSend(self) ==
    /\ dist[self].pc = "fan_out"
    /\ dist[self].ci <= Len(projects_config)
    /\ dist[self].pi <= Len(projects_config[dist[self].ci].projects)
    /\ LET d == dist[self]
           project_config == projects_config[d.ci]
           type_ == project_config.project_type
           process_unit == ProcessUnit(EpochMsg(self), project_config.projects[d.pi])
       IN \E ok \in BOOLEAN :
            LET sent == send_message_for_processing(
                            d, SnapshotProcessJson(process_unit),
                            <<"EpochReleased", type_>>, ok)
            IN dist' = [dist EXCEPT ![self] =
                          IF ok THEN [sent EXCEPT !.pi = @ + 1] ELSE sent]
    /\ UNCHANGED <<chunk_vars, detector_vars, limiter_vars, instances, aggregator_events,
                   deliveries>>

\* basic_ack wherever the loops of lines 104-119 stand.
SnapshottingAckEarly(self) ==
    /\ dist[self].pc = "fan_out"
    /\ dist' = [dist EXCEPT ![self] = Returned([@ EXCEPT !.acks = @ + 1])]
    /\ UNCHANGED <<chunk_vars, detector_vars, limiter_vars, instances, aggregator_events,
                   deliveries>>

\* Lines 121-123: basic_ack after the loops.
SnapshottingAck(self) ==
    /\ dist[self].pc = "fan_out"
    /\ dist[self].ci > Len(projects_config)
    /\ dist' = [dist EXCEPT ![self] = Returned([@ EXCEPT !.acks = @ + 1])]
    /\ UNCHANGED <<chunk_vars, detector_vars, limiter_vars, instances, aggregator_events,
                   deliveries>>

\* _distribute_callbacks_aggregate, lines 195-215: event type and parse_raw
\* inside the try.
AggregateParse(self) ==
    /\ dist[self].pc = "aggregate"
    /\ LET d == dist[self]
       IN dist' = [dist EXCEPT ![self] =
            IF d.routing_key = "SnapshotFinalized" /\ FinalizedValid(d.body)
            THEN [d EXCEPT !.pc = "agg_config", !.ci = 1]
            ELSE Returned(d)]
    /\ UNCHANGED <<chunk_vars, detector_vars, limiter_vars, instances, aggregator_events,
                   deliveries>>

\* Lines 221-230: a single-project aggregator; the filter is tested with 'in'
\* on two strings.
AggSingleProject(self) ==
    /\ dist[self].pc = "agg_config"
    /\ dist[self].ci <= Len(aggregator_config)
    /\ aggregator_config[dist[self].ci].aggregate_on = "single_project"
    /\ LET d == dist[self]
           config == aggregator_config[d.ci]
           process_unit == FinalizedMsg(self)
       IN IF ~Contains(config.filters.projectId, process_unit.projectId)
          THEN dist' = [dist EXCEPT ![self] = [d EXCEPT !.ci = @ + 1]]
          ELSE \E ok \in BOOLEAN :
                 LET sent == send_message_for_processing(
                                 d, FinalizedJson(process_unit),
                                 <<"CalculateAggregate", config.project_type>>, ok)
                 IN dist' = [dist EXCEPT ![self] =
                               IF ok THEN [sent EXCEPT !.ci = @ + 1] ELSE sent]
    /\ UNCHANGED <<chunk_vars, detector_vars, limiter_vars, instances, aggregator_events,
                   deliveries>>

\* Line 232 for a required project id.
IsRequiredAnyProject(projectId, projects_to_wait_for) == TRUE

\* Line 232: the project id is one of the projects the aggregator waits for.
IsRequired(projectId, projects_to_wait_for) ==
    projectId \in Range(projects_to_wait_for)

\* Lines 231-241: a multi-project aggregator skips a project it does not wait
\* for, and adds any other finalized message to its sorted set, scored by the
\* epoch id.
AggMultiProject(self) ==
    /\ dist[self].pc = "agg_config"
    /\ dist[self].ci <= Len(aggregator_config)
    /\ aggregator_config[dist[self].ci].aggregate_on = "multi_project"
    /\ LET d == dist[self]
           config == aggregator_config[d.ci]
           process_unit == FinalizedMsg(self)
       IN IF ~IsRequired(process_unit.projectId, config.projects_to_wait_for)
          THEN /\ dist' = [dist EXCEPT ![self] = [d EXCEPT !.ci = @ + 1]]
               /\ UNCHANGED aggregator_events
          ELSE /\ aggregator_events' =
                     [aggregator_events EXCEPT ![config.project_type] =
                         ZAdd(@, FinalizedJson(process_unit), process_unit.epochId)]
               /\ dist' = [dist EXCEPT ![self] =
                     [d EXCEPT !.pc = "agg_read",
                               !.dup = [member |-> FinalizedJson(process_unit),
                                        score |-> process_unit.epochId]
                                 \in BagToSet(aggregator_events[config.project_type])]]
    /\ UNCHANGED <<chunk_vars, detector_vars, limiter_vars, instances, deliveries>>

\* Lines 243-249 reading only the entry the handler has just added.
AggReadOwnEntry(self) ==
    /\ dist[self].pc = "agg_read"
    /\ dist' = [dist EXCEPT ![self] =
          [@ EXCEPT !.events = SetToBag({dist[self].body}), !.pc = "agg_join"]]
    /\ UNCHANGED <<chunk_vars, detector_vars, limiter_vars, instances, aggregator_events,
                   deliveries>>

\* Lines 243-249: the entries of this epoch id are read back.
AggRead(self) ==
    /\ dist[self].pc = "agg_read"
    /\ LET d == dist[self]
           config == aggregator_config[d.ci]
           epochId == FinalizedMsg(self).epochId
       IN dist' = [dist EXCEPT ![self] =
            [d EXCEPT !.events = ZRangeByScore(aggregator_events[config.project_type],
                                               epochId, epochId),
                      !.pc = "agg_join"]]
    /\ UNCHANGED <<chunk_vars, detector_vars, limiter_vars, instances, aggregator_events,
                   deliveries>>

\* Lines 255-261: the project ids and the messages of the entries read.
EventProjectIds(events) == {FinalizedParseRaw(e).projectId : e \in BagToSet(events)}
FinalizedMessagesOf(events) ==
    [m \in {FinalizedParseRaw(e) : e \in BagToSet(events)} |->
        events[FinalizedJson(m)]]

\* The test of line 263 made with <= in place of ==.
JoinCompleteSubset(event_project_ids, projects_to_wait_for) ==
    event_project_ids \subseteq Range(projects_to_wait_for)

\* Line 263: the project ids read are exactly the awaited ones.
JoinComplete(event_project_ids, projects_to_wait_for) ==
    event_project_ids = Range(projects_to_wait_for)

\* Lines 251-275 and 286-290: nothing read, or the join is incomplete, and the
\* loop goes on; or every awaited project is present and the aggregate message
\* is sent.
AggJoin(self) ==
    /\ dist[self].pc = "agg_join"
    /\ LET d == dist[self]
           config == aggregator_config[d.ci]
           final_msg == [messages |-> FinalizedMessagesOf(d.events),
                         broadcastId |-> "uuid4"]
       IN IF d.events = EmptyBag
             \/ ~JoinComplete(EventProjectIds(d.events),
                              config.projects_to_wait_for)
          THEN dist' = [dist EXCEPT ![self] =
                          [d EXCEPT !.pc = "agg_config", !.ci = @ + 1,
                                    !.events = EmptyBag]]
          ELSE \E ok \in BOOLEAN :
                 LET sent == send_message_for_processing(
                                 d, AggregateJson(final_msg),
                                 <<"CalculateAggregate", config.project_type>>, ok)
                 IN dist' = [dist EXCEPT ![self] =
                               IF ok THEN [sent EXCEPT !.pc = "agg_cleanup"]
                               ELSE sent]
    /\ UNCHANGED <<chunk_vars, detector_vars, limiter_vars, instances, aggregator_events,
                   deliveries>>

\* The cleanup of lines 277-284 followed by a break out of the loop of line 218.
AggCleanupBreaks(self) ==
    /\ dist[self].pc = "agg_cleanup"
    /\ LET d == dist[self]
           config == aggregator_config[d.ci]
           epochId == FinalizedMsg(self).epochId
       IN /\ aggregator_events' =
                [aggregator_events EXCEPT ![config.project_type] =
                    ZRemRangeByScore(@, epochId, epochId)]
          /\ dist' = [dist EXCEPT ![self] =
                [d EXCEPT !.pc = "agg_config", !.ci = Len(aggregator_config) + 1,
                          !.events = EmptyBag]]
    /\ UNCHANGED <<chunk_vars, detector_vars, limiter_vars, instances, deliveries>>

\* Lines 277-284: the entries of this epoch id are removed.
AggCleanup(self) ==
    /\ dist[self].pc = "agg_cleanup"
    /\ LET d == dist[self]
           config == aggregator_config[d.ci]
           epochId == FinalizedMsg(self).epochId
       IN /\ aggregator_events' =
                [aggregator_events EXCEPT ![config.project_type] =
                    ZRemRangeByScore(@, epochId, epochId)]
          /\ dist' = [dist EXCEPT ![self] =
                [d EXCEPT !.pc = "agg_config", !.ci = @ + 1, !.events = EmptyBag]]
    /\ UNCHANGED <<chunk_vars, detector_vars, limiter_vars, instances, deliveries>>

\* Lines 291-293: basic_ack after the loop over the aggregator configs.
AggregateAck(self) ==
    /\ dist[self].pc = "agg_config"
    /\ dist[self].ci > Len(aggregator_config)
    /\ dist' = [dist EXCEPT ![self] = Returned([@ EXCEPT !.acks = @ + 1])]
    /\ UNCHANGED <<chunk_vars, detector_vars, limiter_vars, instances, aggregator_events,
                   deliveries>>

\* The steps of one distributor.
Distributor(self) ==
    \/ Deliver(self)
    \/ ForwardToPayloadCommit(self)
    \/ DistributeCallbacks(self)
    \/ SnapshottingParse(self)
    \/ WarmUpCache(self)
    \/ FanOutNextType(self)
    \/ FanOutSend(self)
    \/ SnapshottingAck(self)
    \/ AggregateParse(self)
    \/ AggSingleProject(self)
    \/ AggMultiProject(self)
    \/ AggRead(self)
    \/ AggJoin(self)
    \/ AggCleanup(self)
    \/ AggregateAck(self)

\* The deployment with one distributor process.
DistributorNext == Distributor("d1")

SpecDistributor == DistributorInit /\ [][DistributorNext]_vars

\* Several distributor processes that share the store. Each takes one
\* SnapshotFinalized delivery; the deliveries handled before have left their
\* entries in the correlation set of the multi-project aggregator.

\* What n earlier deliveries of epoch id 1 left in the correlation set.
PriorMessages(n) ==
    {m \in FinalizedMessages :
        /\ m.epochId = 1
        /\ m.snapshotCid = "cid1"
        /\ \/ n >= 1 /\ m.projectId = ProjectA
           \/ n >= 2 /\ m.projectId = ProjectB}

PriorEvents(type_, n) ==
    IF aggregator_config[1].project_type = type_
    THEN SetToBag({[member |-> FinalizedJson(m), score |-> m.epochId] :
                      m \in PriorMessages(n)})
    ELSE EmptyBag

\* Two distributors, and the entries of up to two earlier deliveries.
ConcurrentInit ==
    /\ ChunksIdle
    /\ DetectorIdle
    /\ LimiterIdle
    /\ instances = {"d1", "d2"}
    /\ dist = [i \in instances |-> Fresh]
    /\ deliveries \in 0..2
    /\ aggregator_events = [t \in AggregatorTypes |-> PriorEvents(t, deliveries)]

\* The broker hands a SnapshotFinalized delivery to a distributor that has
\* handled none (lines 295-306).
DeliverFinalized(self) ==
    /\ dist[self] = Fresh
    /\ deliveries < MaxDeliveries
    /\ deliveries' = deliveries + 1
    /\ \E body \in Bodies("SnapshotFinalized") :
          dist' = [dist EXCEPT ![self] =
                      [Fresh EXCEPT !.pc = "forward",
                                    !.routing_key = "SnapshotFinalized",
                                    !.body = body]]
    /\ UNCHANGED <<chunk_vars, detector_vars, limiter_vars, instances, aggregator_events>>

\* The steps of a distributor that handles a SnapshotFinalized delivery.
FinalizedHandler(self) ==
    \/ DeliverFinalized(self)
    \/ ForwardToPayloadCommit(self)
    \/ DistributeCallbacks(self)
    \/ AggregateParse(self)
    \/ AggSingleProject(self)
    \/ AggMultiProject(self)
    \/ AggRead(self)
    \/ AggJoin(self)
    \/ AggCleanup(self)
    \/ AggregateAck(self)

\* The deployment with two distributor processes.
ConcurrentNext == FinalizedHandler("d1") \/ FinalizedHandler("d2")

SpecConcurrent == ConcurrentInit /\ [][ConcurrentNext]_vars

\* ------------------------------------------------------------ rate limiter
\* check_rpc_rate_limit of src/uniswap_functions.py, called by concurrent
\* processes that share the buckets of one identity in the store, and the Lua
\* script SCRIPT_INCR_EXPIRE the store runs atomically for every hit.

\* A key of the store that does not exist: TTL answers -2 for it, and -1 for a
\* key without expiry. hits counts the increments of the current window.
NoBucket == [count |-> 0, ttl |-> -2, hits |-> 0]

\* PARSED_LIMITS of the deployment: no limit, one limit, or two limits of
\* different granularity; amount per expiry seconds.
LimitConfigs ==
    {<<>>,
     <<[amount |-> 2, expiry |-> 1]>>,
     <<[amount |-> 2, expiry |-> 1], [amount |-> 2, expiry |-> 2]>>}

\* What the callers pass as request_payload and error_msg.
RequestPayloads == {"request"}
ErrorMsgs == {"error_msg"}

\* The processes that call check_rpc_rate_limit.
Callers == {"p1", "p2"}

\* SCRIPT_INCR_EXPIRE with the expiry set when the counter reads 1.
ScriptIncrExpireOnOne(bucket, expiry, amount) ==
    LET current == bucket.count + amount
        incremented == [count |-> current,
                        ttl |-> IF bucket.ttl = -2 THEN -1 ELSE bucket.ttl,
                        hits |-> bucket.hits + 1]
    IN IF current = 1
       THEN [incremented EXCEPT !.ttl = expiry]
       ELSE incremented

\* SCRIPT_INCR_EXPIRE (lines 67-74), KEYS[1] the bucket, ARGV[1] the expiry and
\* ARGV[2] the amount: incrby creates a missing key without expiry, and the
\* expiry is set when the counter equals the amount just added. The script
\* returns the counter.
ScriptIncrExpire(bucket, expiry, amount) ==
    LET current == bucket.count + amount
        incremented == [count |-> current,
                        ttl |-> IF bucket.ttl = -2 THEN -1 ELSE bucket.ttl,
                        hits |-> bucket.hits + 1]
    IN IF current = amount
       THEN [incremented EXCEPT !.ttl = expiry]
       ELSE incremented

\* AsyncFixedWindowRateLimiter.hit: the counter after the increment does not
\* exceed the amount of the limit.
HitResult(current, limit) == current <= limit.amount

\* get_window_stats(...)[0] less the time of the call: the seconds until the
\* bucket expires, 0 for a bucket that is gone or has no expiry.
ResetIn(bucket) == IF bucket.ttl > 0 THEN bucket.ttl ELSE 0

\* Lines 225-227: retry_after in seconds.
RetryAfter(bucket) == 1 + ResetIn(bucket)

NoException ==
    [request |-> "", response |-> "", underlying_exception |-> "",
     extra_info |-> ""]

\* Lines 246-250.
RPCException(request, response, underlying_exception, extra_info) ==
    [request |-> request, response |-> response,
     underlying_exception |-> underlying_exception, extra_info |-> extra_info]

\* A process that is not inside check_rpc_rate_limit and has not called it.
NotCalling ==
    [pc |-> "idle", request_payload |-> "", error_msg |-> "", limit_incr_by |-> 1,
     i |-> 1, can_request |-> FALSE, retry_after |-> 1, currents |-> <<>>,
     ordinals |-> <<>>,
     error |-> "none", outcome |-> "none", exc |-> NoException]

\* A process calls check_rpc_rate_limit (lines 204-215).
Call(self) ==
    /\ callers[self].pc = "idle"
    /\ \E request \in RequestPayloads, msg \in ErrorMsgs, cost \in 1..MaxCost :
          callers' = [callers EXCEPT ![self] =
                        [NotCalling EXCEPT !.pc = "loop",
                                           !.request_payload = request,
                                           !.error_msg = msg,
                                           !.limit_incr_by = cost]]
    /\ UNCHANGED <<chunk_vars, detector_vars, dist_vars, clear_vars, PARSED_LIMITS, buckets>>

\* Line 223 for a limit that is not exceeded, then the else of lines 242-243.
HitPermits(self) ==
    /\ callers[self].pc = "loop"
    /\ callers[self].i <= Len(PARSED_LIMITS)
    /\ LET c == callers[self]
           each_lim == PARSED_LIMITS[c.i]
           after == ScriptIncrExpire(buckets[c.i], each_lim.expiry, c.limit_incr_by)
       IN /\ after.count <= MaxCount
          /\ HitResult(after.count, each_lim)
          /\ buckets' = [buckets EXCEPT ![c.i] = after]
          /\ callers' = [callers EXCEPT ![self] =
                [c EXCEPT !.currents = Append(@, after.count),
                          !.ordinals = Append(@, after.hits),
                          !.can_request = TRUE, !.i = @ + 1]]
    /\ UNCHANGED <<chunk_vars, detector_vars, dist_vars, clear_vars, PARSED_LIMITS>>

\* Line 223 for a limit that is exceeded, with the increment taken back.
HitExceedsRollsBack(self) ==
    /\ callers[self].pc = "loop"
    /\ callers[self].i <= Len(PARSED_LIMITS)
    /\ LET c == callers[self]
           each_lim == PARSED_LIMITS[c.i]
           after == ScriptIncrExpire(buckets[c.i], each_lim.expiry, c.limit_incr_by)
       IN /\ after.count <= MaxCount
          /\ ~HitResult(after.count, each_lim)
          /\ callers' = [callers EXCEPT ![self] =
                [c EXCEPT !.currents = Append(@, after.count),
                          !.ordinals = Append(@, after.hits),
                          !.pc = "stats"]]
    /\ UNCHANGED <<chunk_vars, detector_vars, dist_vars, clear_vars, PARSED_LIMITS, buckets>>

\* Line 223 for a limit that is exceeded: hit answers False.
HitExceeds(self) ==
    /\ callers[self].pc = "loop"
    /\ callers[self].i <= Len(PARSED_LIMITS)
    /\ LET c == callers[self]
           each_lim == PARSED_LIMITS[c.i]
           after == ScriptIncrExpire(buckets[c.i], each_lim.expiry, c.limit_incr_by)
       IN /\ after.count <= MaxCount
          /\ ~HitResult(after.count, each_lim)
          /\ buckets' = [buckets EXCEPT ![c.i] = after]
          /\ callers' = [callers EXCEPT ![self] =
                [c EXCEPT !.currents = Append(@, after.count),
                          !.ordinals = Append(@, after.hits),
                          !.pc = "stats"]]
    /\ UNCHANGED <<chunk_vars, detector_vars, dist_vars, clear_vars, PARSED_LIMITS>>

\* Lines 224-230, then lines 245-250: the hit was refused, retry_after is
\* computed from the window of the bucket, the loop is left and the
\* RPCException is raised.
WindowStats(self) ==
    /\ callers[self].pc = "stats"
    /\ LET c == callers[self]
       IN callers' = [callers EXCEPT ![self] =
             [c EXCEPT !.retry_after = RetryAfter(buckets[c.i]),
                       !.can_request = FALSE,
                       !.pc = "idle",
                       !.outcome = "RPCException",
                       !.exc = RPCException(c.request_payload, "{}", "None",
                                            c.error_msg)]]
    /\ UNCHANGED <<chunk_vars, detector_vars, dist_vars, clear_vars, PARSED_LIMITS, buckets>>

\* Lines 245-251 after a loop that ran to its end.
LoopEnds(self) ==
    /\ callers[self].pc = "loop"
    /\ callers[self].i > Len(PARSED_LIMITS)
    /\ LET c == callers[self]
       IN callers' = [callers EXCEPT ![self] =
             IF ~c.can_request
             THEN [c EXCEPT !.pc = "idle",
                            !.outcome = "RPCException",
                            !.exc = RPCException(c.request_payload, "{}", "None",
                                                 c.error_msg)]
             ELSE [c EXCEPT !.pc = "idle", !.outcome = "returned"]]
    /\ UNCHANGED <<chunk_vars, detector_vars, dist_vars, clear_vars, PARSED_LIMITS, buckets>>

\* The store call of line 223 or line 224 fails.
StoreCallPending(self) ==
    \/ callers[self].pc = "loop" /\ callers[self].i <= Len(PARSED_LIMITS)
    \/ callers[self].pc = "stats"

\* Lines 231-238: a connection, timeout or response error of the store is
\* logged and raised again.
HitRedisError(self) ==
    /\ StoreCallPending(self)
    /\ callers' = [callers EXCEPT ![self] =
          [@ EXCEPT !.pc = "idle", !.error = "redis", !.outcome = "RedisError"]]
    /\ UNCHANGED <<chunk_vars, detector_vars, dist_vars, clear_vars, PARSED_LIMITS, buckets>>

\* Lines 239-241 with the error swallowed and the request permitted.
HitExceptionPermits(self) ==
    /\ StoreCallPending(self)
    /\ callers' = [callers EXCEPT ![self] =
          [@ EXCEPT !.pc = "idle", !.error = "other", !.can_request = TRUE,
                    !.outcome = "returned"]]
    /\ UNCHANGED <<chunk_vars, detector_vars, dist_vars, clear_vars, PARSED_LIMITS, buckets>>

\* Lines 239-241: any other error is logged and raised again.
HitException(self) ==
    /\ StoreCallPending(self)
    /\ callers' = [callers EXCEPT ![self] =
          [@ EXCEPT !.pc = "idle", !.error = "other", !.outcome = "Exception"]]
    /\ UNCHANGED <<chunk_vars, detector_vars, dist_vars, clear_vars, PARSED_LIMITS, buckets>>

\* A second passes in the store: every expiry comes a second closer and a key
\* whose expiry is reached is deleted. A key without expiry stays forever.
Tick ==
    /\ \E k \in DOMAIN buckets : buckets[k].ttl > 0
    /\ buckets' = [k \in DOMAIN buckets |->
                     IF buckets[k].ttl > 1
                     THEN [buckets[k] EXCEPT !.ttl = @ - 1]
                     ELSE IF buckets[k].ttl = 1 THEN NoBucket ELSE buckets[k]]
    /\ UNCHANGED <<chunk_vars, detector_vars, dist_vars, clear_vars, PARSED_LIMITS, callers>>

Limiter(self) ==
    \/ Call(self)
    \/ HitPermits(self)
    \/ HitExceeds(self)
    \/ WindowStats(self)
    \/ LoopEnds(self)
    \/ HitRedisError(self)
    \/ HitException(self)

LimiterInit ==
    /\ ChunksIdle
    /\ DetectorIdle
    /\ DistributorIdle
    /\ ClearIdle
    /\ PARSED_LIMITS \in LimitConfigs
    /\ buckets = [k \in DOMAIN PARSED_LIMITS |-> NoBucket]
    /\ callers = [p \in Callers |-> NotCalling]

LimiterNext == Limiter("p1") \/ Limiter("p2") \/ Tick

SpecLimiter == LimiterInit /\ [][LimiterNext]_vars

\* ---------------------------------------------------------- clearing keys
\* SCRIPT_CLEAR_KEYS of src/uniswap_functions.py, run by the store as one
\* script over the keys that match KEYS[1].

\* Line 59: the step of the loop. Line 61: how far past i a del reaches.
BatchStep == 5000
BatchSpan == 4999

\* The keys of the store: a prefix and what follows it.
KeyOrder ==
    [j \in 1..(MaxKeys + MaxOther) |->
        IF j <= MaxKeys THEN <<"LIMITER", j>> ELSE <<"OTHER", j - MaxKeys>>]

\* How many keys of the rate limiter the store holds: none, a few, and the
\* numbers around the multiples of the step.
KeyCounts == {n \in 0..MaxKeys : n % BatchStep \in {0, 1, 2, BatchStep - 1}}

\* KEYS[1]: a prefix, or * for any, followed by *.
Patterns == {<<"LIMITER", "*">>, <<"OTHER", "*">>, <<"NONE", "*">>, <<"*", "*">>}

\* The glob match of the keys command for these patterns.
Matches(pattern, key) ==
    /\ pattern[1] \in {"*", key[1]}
    /\ pattern[2] = "*"

\* redis.call('keys', KEYS[1]): the table of the keys in the store that match.
KeysMatching(pattern) ==
    SelectSeq(KeyOrder, LAMBDA k : k \in keyspace /\ Matches(pattern, k))

\* Line 61 with the del reaching one key further.
BatchEndLong(i, n) ==
    IF i + BatchStep <= n THEN i + BatchStep ELSE n

\* math.min(i+4999, #keys)
BatchEnd(i, n) ==
    IF i + BatchSpan <= n THEN i + BatchSpan ELSE n

\* Lines 57-58.
ClearCall ==
    /\ clear.pc = "idle"
    /\ \E pattern \in Patterns :
          clear' = [clear EXCEPT !.pc = "loop", !.pattern = pattern,
                                 !.keys = KeysMatching(pattern),
                                 !.i = 1, !.res = 0, !.before = keyspace]
    /\ UNCHANGED <<chunk_vars, detector_vars, dist_vars, PARSED_LIMITS, buckets,
                   callers, keyspace>>

\* Lines 59-63, one pass of the loop: del of keys[i..min(i+4999, #keys)], which
\* answers how many of them it removed.
ClearBatch ==
    /\ clear.pc = "loop"
    /\ clear.i <= Len(clear.keys)
    /\ LET batch == {clear.keys[j] :
                        j \in clear.i..BatchEnd(clear.i, Len(clear.keys))}
       IN /\ keyspace' = keyspace \ batch
          /\ clear' = [clear EXCEPT
                          !.res = @ + Cardinality(batch \cap keyspace),
                          !.i = @ + BatchStep,
                          !.batches = Append(@, batch)]
    /\ UNCHANGED <<chunk_vars, detector_vars, dist_vars, PARSED_LIMITS, buckets,
                   callers>>

\* Line 64.
ClearReturn ==
    /\ clear.pc = "loop"
    /\ clear.i > Len(clear.keys)
    /\ clear' = [clear EXCEPT !.pc = "done"]
    /\ UNCHANGED <<chunk_vars, detector_vars, dist_vars, PARSED_LIMITS, buckets,
                   callers, keyspace>>

\* A store that holds some keys of each kind.
ClearInit ==
    /\ ChunksIdle
    /\ DetectorIdle
    /\ DistributorIdle
    /\ CallersIdle
    /\ \E n \in KeyCounts, m \in 0..MaxOther :
          keyspace = {KeyOrder[j] : j \in (1..n) \cup ((MaxKeys + 1)..(MaxKeys + m))}
    /\ clear = NoClear

ClearNext ==
    \/ ClearCall
    \/ ClearBatch
    \/ ClearReturn

SpecClearKeys == ClearInit /\ [][ClearNext]_vars

\* ---------------------------------------------------------- specifications
\* The steps of the main thread.
ProcessNext ==
    \/ Run
    \/ StartThread
    \/ FetchOk
    \/ FetchNon200
    \/ RetrySleepDone
    \/ FetchError
    \/ SleepDone
    \/ Load
    \/ Compare
    \/ NextChunk
    \/ ChunksDone
    \/ BroadcastPut
    \/ BroadcastSetMemory
    \/ BroadcastStoreOk
    \/ BroadcastStoreFail
    \/ CleanupJoin
    \/ CleanupSave

\* The steps of the interactor thread.
ThreadNext ==
    \/ InteractorWrapper
    \/ InteractorStopped

Init ==
    /\ ChunksIdle
    /\ DetectorInit
    /\ DistributorIdle
    /\ LimiterIdle

Next ==
    \/ ProcessNext
    \/ ThreadNext
    \/ Signal
    \/ Restart

Spec == Init /\ [][Next]_vars

\* chunks() on its own, for every start_idx, stop_idx and n of the bounds.
ChunksInit ==
    /\ DetectorIdle
    /\ DistributorIdle
    /\ LimiterIdle
    /\ chunks_args \in [start_idx : 0..MaxIdx, stop_idx : 0..MaxIdx, n : 1..MaxN]
    /\ chunks_gen = chunks(chunks_args.start_idx, chunks_args.stop_idx, chunks_args.n)
    /\ chunks_out = <<>>

ChunksStep ==
    \/ ChunksNext
    \/ ChunksReturn

SpecChunks == ChunksInit /\ [][ChunksStep]_vars

\* ------------------------------------------------------------------ claims
\* A step of the main thread: no signal handled, no kill.
MainStep ==
    /\ pc' # pc
    /\ shutdown_initiated' = shutdown_initiated
    /\ restarts' = restarts

\* How many of the yielded chunks contain index h.
ChunkCover(h) ==
    Cardinality({k \in 1..Len(chunks_out) :
                    chunks_out[k][1] <= h /\ h <= chunks_out[k][2]})

\* C1: for start_idx <= stop_idx and n >= 1, the tuples chunks() has yielded when
\* it returns are pairwise disjoint and strictly ascending, each with
\* begin <= end and at most n indices, every index of start_idx..stop_idx is in
\* exactly one of them and none lies outside, and the last one ends at stop_idx.
C1_ChunksPartition ==
    (chunks_gen = NoIter /\ chunks_args.n >= 1
        /\ chunks_args.start_idx <= chunks_args.stop_idx)
    => /\ Len(chunks_out) >= 1
       /\ chunks_out[Len(chunks_out)][2] = chunks_args.stop_idx
       /\ \A k \in 1..Len(chunks_out) :
             /\ chunks_out[k][1] <= chunks_out[k][2]
             /\ chunks_out[k][2] - chunks_out[k][1] + 1 <= chunks_args.n
             /\ chunks_args.start_idx <= chunks_out[k][1]
             /\ chunks_out[k][2] <= chunks_args.stop_idx
       /\ \A j, k \in 1..Len(chunks_out) :
             j < k => chunks_out[j][2] < chunks_out[k][1]
       /\ \A h \in chunks_args.start_idx..chunks_args.stop_idx : ChunkCover(h) = 1

\* chunks() has returned after several chunks, the last of them truncated.
C1_Witness ==
    /\ chunks_gen = NoIter
    /\ chunks_args.start_idx < chunks_args.stop_idx
    /\ Len(chunks_out) >= 2
    /\ chunks_out[Len(chunks_out)][2] - chunks_out[Len(chunks_out)][1] + 1
          < chunks_args.n

\* C2: in a catch-up cycle every chunk that is broadcast begins right after the
\* checkpoint in memory (the first at checkpoint end + 1, so the checkpoint's
\* end height is not broadcast again), ends no later than the network end and
\* has the size of one epoch unless it is the truncated last one.
C2_CatchUpBeginsAfterCheckpoint ==
    (pc = "bc_put" /\ cycle = "catch_up")
    => /\ epoch.begin = last_processed_epoch.end + 1
       /\ epoch.end <= epoch_iter.stop_idx
       /\ \/ epoch.end - epoch.begin + 1 = epoch_iter.n
          \/ epoch.end = epoch_iter.stop_idx

\* How many broadcasts, over all processes, contain height h.
BroadcastCover(h) ==
    LET covering == {e \in BagToSet(broadcast_log) : e.begin <= h /\ h <= e.end}
        sum[S \in SUBSET covering] ==
            IF S = {} THEN 0
            ELSE LET e == CHOOSE x \in S : TRUE
                 IN CopiesIn(e, broadcast_log) + sum[S \ {e}]
    IN sum[covering]

\* The lowest height ever broadcast: the first broadcast's begin, as long as no
\* recovery from an empty store started lower.
LowestBroadcast ==
    CHOOSE b \in {e.begin : e \in BagToSet(broadcast_log)} :
        \A e \in BagToSet(broadcast_log) : b <= e.begin

\* C3: across poll cycles, kills and recoveries, every height from the first
\* broadcast's begin up to the end of the checkpoint in memory is contained in
\* exactly one broadcast.
C3_ExactlyOnce ==
    (last_processed_epoch # None /\ broadcast_log # EmptyBag)
    => \A h \in LowestBroadcast..last_processed_epoch.end : BroadcastCover(h) = 1

\* C4: when a checkpoint exists at the comparison and its end equals the
\* network's end, the step publishes nothing, leaves the checkpoint in memory
\* and the stored one as they are, prepares no broadcast and goes to the
\* polling sleep.
C4_SameEndNoBroadcast ==
    [][(/\ pc = "compare"
        /\ MainStep
        /\ last_processed_epoch # None
        /\ last_processed_epoch.end = current_epoch.end)
       => /\ pc' = "sleep"
          /\ rabbitmq_queue' = rabbitmq_queue
          /\ broadcast_log' = broadcast_log
          /\ last_processed_epoch' = last_processed_epoch
          /\ redis_epoch' = redis_epoch
          /\ epoch' = None
          /\ epoch_iter' = NoIter]_vars

\* The detector sleeps after a comparison that found the ends equal.
C4_Witness ==
    /\ pc = "sleep"
    /\ cycle = "same"
    /\ last_processed_epoch # None
    /\ ~shutdown_initiated

\* C5: when the checkpoint's end is greater than the network's end, for every
\* threshold the comparison publishes nothing, changes no checkpoint and leaves
\* the loop for the cleanup wrapper; from there until the process is gone
\* nothing is published, the checkpoint in memory stays and the stored
\* checkpoint's end never gets lower.
C5_RegressionFatal ==
    /\ [][(/\ pc = "compare"
           /\ MainStep
           /\ last_processed_epoch # None
           /\ last_processed_epoch.end > current_epoch.end)
          => /\ pc' = "cleanup_join"
             /\ cycle' \in FatalBranches
             /\ rabbitmq_queue' = rabbitmq_queue
             /\ broadcast_log' = broadcast_log
             /\ last_processed_epoch' = last_processed_epoch
             /\ redis_epoch' = redis_epoch]_vars
    /\ [][(cycle \in FatalBranches /\ restarts' = restarts)
          => /\ pc' \in {"cleanup_join", "cleanup_save", "exited"}
             /\ rabbitmq_queue' = rabbitmq_queue
             /\ broadcast_log' = broadcast_log
             /\ last_processed_epoch' = last_processed_epoch
             /\ redis_epoch'.end >= redis_epoch.end]_vars

\* The regression was found by line 179 and the process is in the wrapper.
C5_Witness ==
    /\ cycle = "regression"
    /\ pc = "cleanup_join"
    /\ rabbitmq_queue # <<>>

\* C6: after the loop raised its fatal condition, with no signal handled, the
\* process has exited or it, or its interactor thread, can still take a step:
\* it is never left waiting with nothing of its own that could end the wait.
C6_FatalExits ==
    (cycle \in FatalBranches /\ ~shutdown_initiated)
    => (pc = "exited" \/ ENABLED (ProcessNext \/ ThreadNext))

\* C7: when the network's end is ahead of the checkpoint's end by more than a
\* threshold of zero or more, the comparison goes on to partition and broadcast
\* the backlog.
C7_FallBehindContinues ==
    [][(/\ pc = "compare"
        /\ MainStep
        /\ last_processed_epoch # None
        /\ threshold >= 0
        /\ current_epoch.end > last_processed_epoch.end
        /\ current_epoch.end - last_processed_epoch.end > threshold)
       => /\ pc' = "next_chunk"
          /\ epoch_iter' # NoIter]_vars

\* C8: each broadcast put on the queue of one process begins after the end of
\* the one put before it, and that one is the checkpoint in memory by then.
C8_AscendingBroadcasts ==
    [][(Len(rabbitmq_queue') > Len(rabbitmq_queue) /\ Len(rabbitmq_queue) >= 1)
       => /\ rabbitmq_queue'[Len(rabbitmq_queue')].begin
                > rabbitmq_queue[Len(rabbitmq_queue)].end
          /\ last_processed_epoch = rabbitmq_queue[Len(rabbitmq_queue)]]_vars

\* C9: a store write that fails inside _broadcast_epoch is swallowed: the store
\* is left as it was, the checkpoint in memory is already the broadcast epoch,
\* and the detector goes on where _broadcast_epoch returns to (the next chunk
\* of the loop); a store write that succeeds there, and any step that changes
\* the stored checkpoint, leaves it equal to the checkpoint in memory.
C9_StoreFailureSwallowed ==
    /\ [][(set_failures' > set_failures)
          => /\ last_processed_epoch' = epoch
             /\ last_processed_epoch' = last_processed_epoch
             /\ redis_epoch' = redis_epoch
             /\ rabbitmq_queue' = rabbitmq_queue
             /\ pc' = Ret
             /\ pc' \in {"next_chunk", "sleep"}]_vars
    /\ [][(pc = "bc_store" /\ MainStep /\ set_failures' = set_failures)
          => redis_epoch' = last_processed_epoch']_vars
    /\ [][(redis_epoch' # redis_epoch)
          => redis_epoch' = last_processed_epoch']_vars

\* A store write failed in this process, and a later chunk's write made the
\* stored checkpoint equal to the one in memory again.
C9_Witness ==
    /\ set_failures > 0
    /\ pc = "next_chunk"
    /\ Len(rabbitmq_queue) >= 2
    /\ rabbitmq_queue[Len(rabbitmq_queue)] # rabbitmq_queue[Len(rabbitmq_queue) - 1]
    /\ last_processed_epoch = rabbitmq_queue[Len(rabbitmq_queue)]
    /\ redis_epoch = last_processed_epoch

\* C10: a process that has exited after its handler ran on a signal has joined
\* the interactor thread and, if it had a checkpoint in memory, has issued the
\* write of it to the store.
C10_GracefulShutdownOrder ==
    (pc = "exited" /\ shutdown_initiated)
    => /\ joined
       /\ last_processed_epoch # None => save_attempted

\* C11: a fetch that raises or answers another status than 200 is recoverable:
\* the main thread goes from the fetch only to the load or to one of the two
\* sleeps, a failed fetch and the sleep after it put nothing on the queue and
\* change neither the checkpoint in memory nor the one in the store, and the
\* sleep always ends in the next fetch, however many fetches failed before.
C11_FailedFetchRecoverable ==
    [][MainStep =>
        /\ (pc = "fetch" => pc' \in {"load", "retry_sleep", "sleep"})
        /\ (pc = "fetch" /\ pc' # "load"
              => UNCHANGED <<rabbitmq_queue, broadcast_log, last_processed_epoch,
                             redis_epoch>>)
        /\ (pc \in {"retry_sleep", "sleep"}
              => /\ pc' = "fetch"
                 /\ UNCHANGED <<rabbitmq_queue, broadcast_log,
                                last_processed_epoch, redis_epoch>>)]_vars

\* The endpoint answered another status than 200 in a cycle after a broadcast.
C11_Witness ==
    /\ pc = "retry_sleep"
    /\ last_processed_epoch # None
    /\ rabbitmq_queue # <<>>
    /\ ~shutdown_initiated

\* C12: the load step keeps a checkpoint that is in memory whatever the store
\* holds, and adopts the stored one only when memory has none; with a checkpoint
\* (kept or adopted) the comparison of the same cycle takes no first broadcast;
\* with none in memory and none in the store the network's current epoch is put
\* unchanged as the only item of the queue, and becomes the checkpoint in
\* memory and, unless the write fails, in the store.
C12_StartupAndRecovery ==
    [][MainStep =>
        /\ (pc = "load"
              => /\ pc' = "compare"
                 /\ last_processed_epoch' =
                       (IF last_processed_epoch # None THEN last_processed_epoch
                        ELSE redis_epoch)
                 /\ UNCHANGED <<redis_epoch, current_epoch, rabbitmq_queue>>)
        /\ (pc = "compare" /\ last_processed_epoch # None
              => /\ cycle' # "first"
                 /\ pc' # "bc_put"
                 /\ UNCHANGED <<last_processed_epoch, rabbitmq_queue>>)
        /\ (pc = "compare" /\ last_processed_epoch = None
              => /\ cycle' = "first"
                 /\ pc' = "bc_put"
                 /\ epoch' = current_epoch
                 /\ epoch_iter' = NoIter)
        /\ (pc = "bc_put" /\ cycle = "first" => rabbitmq_queue' = <<epoch>>)
        /\ (pc = "bc_mem" /\ cycle = "first" => last_processed_epoch' = epoch)
        /\ (pc = "bc_store" /\ cycle = "first"
              => /\ pc' = "sleep"
                 /\ (redis_epoch' = epoch \/ set_failures' > set_failures))]_vars

\* A new process adopted the checkpoint of the store and is about to compare.
C12_Witness ==
    /\ pc = "compare"
    /\ restarts > 0
    /\ rabbitmq_queue = <<>>
    /\ last_processed_epoch # None
    /\ last_processed_epoch = redis_epoch

\* The delivery a distributor has in hand is a well-formed message of its routing key.
EpochReleasedInHand(self) ==
    /\ dist[self].routing_key = "EpochReleased"
    /\ EpochBroadcastValid(dist[self].body)

FinalizedInHand(self) ==
    /\ dist[self].routing_key = "SnapshotFinalized"
    /\ FinalizedValid(dist[self].body)

\* Every configured project with its project type, in configuration order.
ConfiguredProjects ==
    LET RECURSIVE upto(_)
        upto(k) ==
            IF k = 0 THEN <<>>
            ELSE upto(k - 1) \o
                 [j \in 1..Len(projects_config[k].projects) |->
                    [type_ |-> projects_config[k].project_type,
                     project |-> projects_config[k].projects[j]]]
    IN upto(Len(projects_config))

\* The per-project messages one broadcast is fanned out to.
ExpectedFanOut(msg_obj) ==
    [k \in 1..Len(ConfiguredProjects) |->
        [exchange |-> "callbacks",
         routing_key |-> <<"EpochReleased", ConfiguredProjects[k].type_>>,
         msg_body |-> <<msg_obj.begin, msg_obj.end, msg_obj.epochId,
                        lower(ConfiguredProjects[k].project),
                        msg_obj.broadcastId>>]]

IsPrefix(s, t) == Len(s) <= Len(t) /\ s = SubSeq(t, 1, Len(s))

\* C13: while a well-formed EpochReleased delivery is handled the messages
\* enqueued are a prefix of the list that has, for every configured project of
\* every project type in configuration order, one message with the broadcast's
\* begin, end and broadcastId and that project's (lower-cased) contract on the
\* topic of the project type; when the handler has returned they are that whole
\* list, as many as there are configured projects.
C13_FanOutPerProject ==
    \A self \in instances :
        EpochReleasedInHand(self)
        => /\ IsPrefix(dist[self].out, ExpectedFanOut(EpochMsg(self)))
           /\ (dist[self].result = "returned"
                 => /\ dist[self].out = ExpectedFanOut(EpochMsg(self))
                    /\ Len(dist[self].out) = Len(ConfiguredProjects))

\* A broadcast has been fanned out to the projects of both project types.
C13_Witness ==
    \E self \in instances :
        /\ EpochReleasedInHand(self)
        /\ dist[self].result = "returned"
        /\ Len(dist[self].out) = Len(ConfiguredProjects)
        /\ \E j, k \in DOMAIN dist[self].out :
              dist[self].out[j].routing_key # dist[self].out[k].routing_key

\* C14: an EpochReleased delivery is acknowledged at most once, never while
\* the fan-out is still running, only when every per-project message has been
\* enqueued, and not at all when an exception (the store failing to take the
\* processing-log entry) or a malformed body ended the handler.
C14_AckAfterFanOut ==
    \A self \in instances :
        dist[self].routing_key = "EpochReleased"
        => /\ dist[self].acks <= 1
           /\ (dist[self].pc # "idle" => dist[self].acks = 0)
           /\ (dist[self].acks = 1
                 => /\ EpochReleasedInHand(self)
                    /\ Len(dist[self].out) = Len(ConfiguredProjects)
                    /\ dist[self].logged = Len(ConfiguredProjects))
           /\ (dist[self].result = "raised" => dist[self].acks = 0)

\* The store failed after the second per-project message was enqueued: the
\* handler stopped, unacknowledged.
C14_Witness ==
    \E self \in instances :
        /\ EpochReleasedInHand(self)
        /\ dist[self].result = "raised"
        /\ Len(dist[self].out) = 2
        /\ dist[self].logged = 1
        /\ dist[self].acks = 0

\* C15: whatever the outcome of the warm-up, the handler goes on to the same
\* fan-out: after a warm-up that raised, an exception leaves the handler only
\* from a publish (one more message enqueued than logged), and a handler that
\* returned has enqueued the whole fan-out and acknowledged the delivery.
C15_WarmUpBestEffort ==
    \A self \in instances :
        (EpochReleasedInHand(self) /\ dist[self].warm_up # "none")
        => /\ (dist[self].result = "raised"
                 => Len(dist[self].out) = dist[self].logged + 1)
           /\ (dist[self].result = "returned"
                 => /\ dist[self].out = ExpectedFanOut(EpochMsg(self))
                    /\ dist[self].acks = 1)
           /\ (dist[self].pc = "fan_out" /\ dist[self].ci = 1 /\ dist[self].pi = 1
                 => ENABLED FanOutSend(self))

\* The warm-up raised, and the delivery was fanned out and acknowledged.
C15_Witness ==
    \E self \in instances :
        /\ EpochReleasedInHand(self)
        /\ dist[self].warm_up = "raised"
        /\ dist[self].result = "returned"
        /\ dist[self].acks = 1
        /\ Len(dist[self].out) = Len(ConfiguredProjects)

\* The envelope forwarded to the commit-payload topic for finalized message m.
PayloadCommitEnvelope(m) ==
    [exchange |-> "commit_payload", routing_key |-> <<"Finalized">>,
     msg_body |-> <<FinalizedJson(m), TRUE, "chain_id">>]

\* C16: for a well-formed SnapshotFinalized delivery the first thing enqueued
\* is one envelope for the commit-payload topic, everything enqueued after it
\* is an aggregation publish on the callbacks exchange, the handler goes on
\* into the aggregation path, and when it has returned the loop has gone over
\* every aggregator config and the delivery is acknowledged.
C16_CommitThenAggregate ==
    \A self \in instances :
        (FinalizedInHand(self) /\ dist[self].pc # "forward")
        => /\ Len(dist[self].out) >= 1
           /\ dist[self].out[1] = PayloadCommitEnvelope(FinalizedMsg(self))
           /\ \A k \in 2..Len(dist[self].out) :
                 /\ dist[self].out[k].exchange = "callbacks"
                 /\ dist[self].out[k].routing_key[1] = "CalculateAggregate"
           /\ (dist[self].result = "returned"
                 => /\ dist[self].ci = Len(aggregator_config) + 1
                    /\ dist[self].acks = 1)

\* A finalized message was forwarded and then published to an aggregator.
C16_Witness ==
    \E self \in instances :
        /\ FinalizedInHand(self)
        /\ dist[self].result = "returned"
        /\ Len(dist[self].out) >= 2
        /\ dist[self].out[1].exchange = "commit_payload"
        /\ dist[self].out[2].exchange = "callbacks"

\* The multi-project aggregators, by their place in aggregator_config.
MultiConfigs ==
    {k \in DOMAIN aggregator_config :
        aggregator_config[k].aggregate_on = "multi_project"}

\* The entries the correlation set of aggregator type t holds at score e, and
\* the distinct project ids of their messages.
EntriesAt(t, e) == {x \in BagToSet(aggregator_events[t]) : x.score = e}
IdsAt(t, e) == {x.member[2] : x \in EntriesAt(t, e)}

\* Where in out the distributor published to the outbound topic of aggregator t.
AggregatePublishes(self, t) ==
    {j \in DOMAIN dist[self].out :
        /\ dist[self].out[j].exchange = "callbacks"
        /\ dist[self].out[j].routing_key = <<"CalculateAggregate", t>>}

\* C17: one distributor handling a finalized message of an awaited project for
\* a multi-project aggregator: when the aggregate message has been published
\* (and the entries are not yet removed) it is the only one of the delivery, the
\* distinct project ids stored at the epoch id are exactly the awaited set and
\* the message bundles every entry stored at that score; once the aggregator
\* has been evaluated, either nothing was published, the ids at that score are
\* a non-empty strict subset of the awaited set and the message's entry is
\* still there, or the one aggregate was published and no entry is left at
\* that epoch id.
C17_MultiProjectJoin ==
    \A self \in instances : \A k \in MultiConfigs :
        LET d == dist[self]
            t == aggregator_config[k].project_type
            R == Range(aggregator_config[k].projects_to_wait_for)
            m == FinalizedMsg(self)
            published == AggregatePublishes(self, t)
        IN (FinalizedInHand(self) /\ m.projectId \in R)
           => /\ Cardinality(published) <= 1
              /\ (d.pc = "agg_cleanup" /\ d.ci = k
                    => /\ published = {Len(d.out)}
                       /\ IdsAt(t, m.epochId) = R
                       /\ d.out[Len(d.out)].msg_body[1] =
                             SetToBag({FinalizedParseRaw(x.member) :
                                          x \in EntriesAt(t, m.epochId)}))
              /\ (d.ci > k
                    => IF published = {}
                       THEN /\ IdsAt(t, m.epochId) # {}
                            /\ IdsAt(t, m.epochId) \subseteq R
                            /\ IdsAt(t, m.epochId) # R
                            /\ [member |-> FinalizedJson(m), score |-> m.epochId]
                                  \in EntriesAt(t, m.epochId)
                       ELSE EntriesAt(t, m.epochId) = {})

\* The third awaited project arrived: one aggregate of three messages was
\* published and the entries of the epoch id are gone.
C17_Witness ==
    \E self \in instances : \E k \in MultiConfigs :
        /\ FinalizedInHand(self)
        /\ dist[self].ci > k
        /\ \E j \in AggregatePublishes(self, aggregator_config[k].project_type) :
              Cardinality(BagToSet(dist[self].out[j].msg_body[1])) = 3
        /\ EntriesAt(aggregator_config[k].project_type,
                     FinalizedMsg(self).epochId) = {}

\* C18: adding a finalized message that is already in the correlation set
\* leaves the set as it was, and the join step publishes an aggregate exactly
\* when the distinct project ids stored at the epoch id are the awaited set,
\* however many times a message was delivered: a redelivery before the join
\* publishes nothing and changes nothing while that set is incomplete.
C18_RedeliveryBeforeJoin ==
    [][\A self \in instances : \A k \in MultiConfigs :
          LET d == dist[self]
              t == aggregator_config[k].project_type
              R == Range(aggregator_config[k].projects_to_wait_for)
              m == FinalizedMsg(self)
          IN (FinalizedInHand(self) /\ d.ci = k)
             => /\ ((d.pc = "agg_config"
                       /\ [member |-> FinalizedJson(m), score |-> m.epochId]
                             \in BagToSet(aggregator_events[t]))
                      => aggregator_events' = aggregator_events)
                /\ (d.pc = "agg_join"
                      => /\ (Len(dist'[self].out) > Len(d.out))
                            <=> (IdsAt(t, m.epochId) = R)
                         /\ aggregator_events' = aggregator_events)
                /\ (d.pc = "agg_join" /\ d.dup /\ IdsAt(t, m.epochId) # R
                      => /\ dist'[self].out = d.out
                         /\ dist'[self].pc = "agg_config")]_vars

\* A message that was already stored has been delivered again and the entries
\* read back do not complete the join.
C18_Witness ==
    \E self \in instances :
        /\ FinalizedInHand(self)
        /\ dist[self].pc = "agg_join"
        /\ dist[self].dup
        /\ dist[self].ci \in MultiConfigs
        /\ EventProjectIds(dist[self].events)
              # Range(aggregator_config[dist[self].ci].projects_to_wait_for)

C20_ForeignProjectIgnored ==
    \A self \in instances : \A k \in MultiConfigs :
        LET d == dist[self]
            t == aggregator_config[k].project_type
            R == Range(aggregator_config[k].projects_to_wait_for)
        IN /\ \A x \in BagToSet(aggregator_events[t]) : x.member[2] \in R
           /\ (FinalizedInHand(self) /\ FinalizedMsg(self).projectId \notin R)
              => /\ (d.ci = k => d.pc \notin {"agg_read", "agg_join", "agg_cleanup"})
                 /\ AggregatePublishes(self, t) = {}
                 /\ (d.result = "returned"
                       => d.ci = Len(aggregator_config) + 1 /\ d.acks = 1)

\* A message of a project the multi-project aggregator does not wait for went
\* through every config and was published by a later aggregator.
C20_Witness ==
    \E self \in instances : \E k \in MultiConfigs :
        /\ FinalizedInHand(self)
        /\ FinalizedMsg(self).projectId
              \notin Range(aggregator_config[k].projects_to_wait_for)
        /\ dist[self].result = "returned"
        /\ \E j \in DOMAIN dist[self].out :
              /\ dist[self].out[j].exchange = "callbacks"
              /\ dist[self].out[j].routing_key[2]
                    # aggregator_config[k].project_type

\* The single-project aggregators, by their place in aggregator_config.
SingleConfigs ==
    {k \in DOMAIN aggregator_config :
        aggregator_config[k].aggregate_on = "single_project"}

\* C21: once a single-project aggregator has been evaluated for a finalized
\* message, the message has been published to the aggregator's topic if and
\* only if its projectId is the aggregator's filter projectId (a projectId that
\* only contains the filter as a part is not published), the publish carries
\* the message unchanged, and no correlation set was touched for it.
C21_SingleProjectFilter ==
    \A self \in instances : \A k \in SingleConfigs :
        LET t == aggregator_config[k].project_type
            m == FinalizedMsg(self)
        IN (FinalizedInHand(self) /\ dist[self].ci > k)
           => /\ (AggregatePublishes(self, t) # {}
                    <=> (m.projectId = aggregator_config[k].filters.projectId))
              /\ \A j \in AggregatePublishes(self, t) :
                    dist[self].out[j].msg_body = dist[self].body
              /\ aggregator_events[t] = EmptyBag

\* What a handler that ended without an acknowledgment of a well-formed
\* finalized message looks like: the store refused a processing-log write.
StoppedByStore(self) ==
    /\ dist[self].result = "raised"
    /\ dist[self].acks = 0
    /\ Len(dist[self].out) = dist[self].logged + 2

\* C22: a well-formed SnapshotFinalized delivery is never acknowledged while
\* its handler is running and never twice; a handler that ended has either
\* been stopped by the store or has gone over every aggregator config, whatever
\* the earlier configs did, which shows in the publish of every single-project
\* aggregator whose filter occurs in the projectId, and has acknowledged the
\* delivery once.
C22_FinalizedAckedAfterAllConfigs ==
    \A self \in instances :
        FinalizedInHand(self)
        => /\ dist[self].acks <= 1
           /\ (dist[self].pc # "idle" => dist[self].acks = 0)
           /\ (dist[self].pc = "idle"
                 => \/ StoppedByStore(self)
                    \/ /\ dist[self].result = "returned"
                       /\ dist[self].acks = 1
                       /\ dist[self].ci = Len(aggregator_config) + 1
                       /\ \A k \in SingleConfigs :
                             Contains(aggregator_config[k].filters.projectId,
                                      FinalizedMsg(self).projectId)
                             => AggregatePublishes(
                                    self, aggregator_config[k].project_type) # {})

\* A join fired for the first aggregator, the second published too, and the
\* delivery was acknowledged.
C22_Witness ==
    \E self \in instances :
        /\ FinalizedInHand(self)
        /\ dist[self].result = "returned"
        /\ dist[self].acks = 1
        /\ \A k \in DOMAIN aggregator_config :
              AggregatePublishes(self, aggregator_config[k].project_type) # {}

C24_MalformedDropped ==
    \A self \in instances :
        \/ /\ dist[self].routing_key = "EpochReleased"
           /\ ~EpochBroadcastValid(dist[self].body)
        \/ /\ dist[self].routing_key = "SnapshotFinalized"
           /\ ~FinalizedValid(dist[self].body)
        => /\ dist[self].result # "raised"
           /\ dist[self].out = <<>>
           /\ dist[self].acks = 0

\* A caller whose call of check_rpc_rate_limit has ended.
Ended(p) == callers[p].pc = "idle" /\ callers[p].outcome # "none"

\* The script has just incremented bucket k.
Incremented(k) == buckets'[k].hits = buckets[k].hits + 1

\* C25: under every interleaving of the increments of the concurrent callers
\* and for every cost from 1 up, a counter key that exists has an expiry; the
\* expiry is set to the window of the limit by the first increment of a window
\* and is left as it is by every later increment.
C25_BucketHasExpiry ==
    [][\A k \in DOMAIN buckets :
          /\ (buckets'[k].count > 0 => buckets'[k].ttl > 0)
          /\ ((Incremented(k) /\ buckets[k] = NoBucket)
                 => buckets'[k].ttl = PARSED_LIMITS[k].expiry)
          /\ ((Incremented(k) /\ buckets[k] # NoBucket)
                 => buckets'[k].ttl = buckets[k].ttl)]_vars

\* Two callers with different costs hit the same fresh bucket one after the
\* other, the dearer one first, before either call ended.
C25_Witness ==
    /\ Len(PARSED_LIMITS) > 0
    /\ buckets[1].hits = 2
    /\ buckets[1].ttl > 0
    /\ callers["p1"].limit_incr_by = MaxCost
    /\ callers["p2"].limit_incr_by = 1
    /\ callers["p1"].currents = <<MaxCost>>
    /\ callers["p2"].currents = <<MaxCost + 1>>
    /\ callers["p1"].pc # "idle"
    /\ callers["p2"].pc # "idle"

\* The call of p ran against a single limit and every increment of the window
\* it fell into, its own included, had cost 1, so that the counter it got is
\* the number of acquisitions of that window.
UnitCostSingleLimit(p) ==
    /\ Len(PARSED_LIMITS) = 1
    /\ Ended(p)
    /\ callers[p].outcome \in {"returned", "RPCException"}
    /\ callers[p].limit_incr_by = 1
    /\ callers[p].currents = callers[p].ordinals

\* C26: with one limit of T per W seconds and cost 1, the first T acquisitions
\* of a window succeed (the first of a new window too, once the old window has
\* elapsed), every further one of the same window fails, and a failed one
\* computes a retryAfter of at most W seconds.
C26_FixedWindow ==
    \A p \in DOMAIN callers :
        UnitCostSingleLimit(p) =>
            /\ (callers[p].outcome = "returned")
                  <=> (callers[p].ordinals[1] <= PARSED_LIMITS[1].amount)
            /\ (callers[p].outcome = "RPCException"
                   => callers[p].retry_after <= PARSED_LIMITS[1].expiry)

\* Every configured limit was hit by the call of p and none of the counters
\* the hits returned exceeds the amount of its limit.
AllLimitsWithin(p) ==
    \A k \in 1..Len(PARSED_LIMITS) :
        /\ k <= Len(callers[p].currents)
        /\ callers[p].currents[k] <= PARSED_LIMITS[k].amount

\* C27: for every list of limits, the empty list included, a call that met no
\* error of the store returns success exactly when, for every configured
\* limit, the counter after adding the cost is within the amount of the limit;
\* a refused call stopped at the first limit it exceeded.
C27_MultiLimitDecision ==
    \A p \in DOMAIN callers :
        (Ended(p) /\ callers[p].outcome \in {"returned", "RPCException"}) =>
            /\ (callers[p].outcome = "returned") <=> AllLimitsWithin(p)
            /\ (callers[p].outcome = "RPCException" /\ callers[p].currents # <<>>)
                  => LET last == Len(callers[p].currents)
                     IN /\ callers[p].currents[last] > PARSED_LIMITS[last].amount
                        /\ \A k \in 1..(last - 1) :
                              callers[p].currents[k] <= PARSED_LIMITS[k].amount

\* C28: when a limit is exceeded, what is raised to the caller carries the
\* retry_after computed from the window of the bucket and the request and
\* message the caller passed in.
C28_ExceededCarriesRetryAfter ==
    \A p \in DOMAIN callers :
        (Ended(p) /\ callers[p].outcome = "RPCException"
                  /\ callers[p].currents # <<>>) =>
            /\ callers[p].exc.request = callers[p].request_payload
            /\ callers[p].exc.extra_info = callers[p].error_msg
            /\ "retry_after" \in DOMAIN callers[p].exc
            /\ callers[p].exc.retry_after = callers[p].retry_after

\* C29: a call during which the store raised a connection or timeout error is
\* permitted: it returns success and no error reaches the caller.
C29_FailOpenOnStoreError ==
    \A p \in DOMAIN callers :
        callers[p].error = "redis" =>
            /\ Ended(p)
            /\ callers[p].outcome = "returned"

\* C30: a call during which an error other than a store connection or timeout
\* error occurred ends with that error raised to the caller, and is never
\* reported as permitted.
C30_FailClosedOnOtherError ==
    \A p \in DOMAIN callers :
        callers[p].error = "other" =>
            /\ Ended(p)
            /\ callers[p].outcome = "Exception"

\* The error occurred at the second limit, after the first limit had been hit
\* within its amount and can_request had been set.
C30_Witness ==
    \E p \in DOMAIN callers :
        /\ callers[p].error = "other"
        /\ callers[p].outcome = "Exception"
        /\ callers[p].can_request
        /\ Len(callers[p].currents) = 1
        /\ callers[p].i = 2

\* The call of p has just hit the limit it stands at.
HitBy(p) ==
    /\ callers[p].pc = "loop"
    /\ Len(callers'[p].currents) = Len(callers[p].currents) + 1

\* The call of p is refused in this step or has been refused by a hit before.
Refusing(p) ==
    \/ callers[p].pc = "stats"
    \/ callers[p].pc = "loop" /\ callers'[p].pc = "stats"

\* C39: every hit of a call, the refused one included, adds the cost to the
\* bucket of its limit and touches no other bucket; from the refused hit on
\* the call changes no bucket: the buckets of the later limits stay as they
\* are and the increments of the limits up to the refused one are not taken
\* back.
C39_RejectedStillConsumes ==
    [][\A p \in DOMAIN callers :
          /\ HitBy(p) =>
                /\ buckets'[callers[p].i].count
                      = buckets[callers[p].i].count + callers[p].limit_incr_by
                /\ \A j \in DOMAIN buckets :
                      j # callers[p].i => buckets'[j] = buckets[j]
          /\ (callers[p].pc = "stats" /\ callers'[p].pc = "idle")
                => buckets' = buckets
          /\ (Refusing(p) /\ callers'[p] # callers[p])
                => \A j \in DOMAIN buckets :
                      j > callers[p].i => buckets'[j] = buckets[j]]_vars

\* A call was refused at the second of two limits: the first bucket holds its
\* increment, and the second holds more than its limit allows.
C39_Witness ==
    \E p \in DOMAIN callers :
        /\ Len(PARSED_LIMITS) = 2
        /\ Ended(p)
        /\ callers[p].outcome = "RPCException"
        /\ Len(callers[p].currents) = 2
        /\ buckets[1].count >= callers[p].currents[1]
        /\ buckets[2].count >= callers[p].currents[2]
        /\ buckets[2].count > PARSED_LIMITS[2].amount

\* The keys of the store that matched KEYS[1] when the script began.
MatchingBefore == {k \in clear.before : Matches(clear.pattern, k)}

\* C31: when the script has run, no key that matched the pattern is left and
\* no other key is gone; the dels took consecutive stretches of the key table
\* of at most 5000 keys each, every matching key is in exactly one of them,
\* and the number returned is the number of keys deleted.
C31_ClearAllBatches ==
    clear.pc = "done" =>
        /\ keyspace = clear.before \ MatchingBefore
        /\ \A b \in 1..Len(clear.batches) :
              /\ Cardinality(clear.batches[b]) <= 5000
              /\ clear.batches[b]
                    = {clear.keys[j] :
                          j \in ((b - 1) * 5000 + 1)..
                                (IF b * 5000 <= Len(clear.keys)
                                 THEN b * 5000 ELSE Len(clear.keys))}
        /\ \A k \in MatchingBefore :
              Cardinality({b \in 1..Len(clear.batches) : k \in clear.batches[b]}) = 1
        /\ clear.res = Cardinality(MatchingBefore)

\* The script has run over more keys than two dels take, with other keys in
\* the store.
C31_Witness ==
    /\ clear.pc = "done"
    /\ Len(clear.batches) = 3
    /\ Cardinality(clear.batches[3]) = 1
    /\ keyspace # {}
    /\ clear.res = Len(clear.keys)

C38_SignalDuringBroadcast ==
    (pc = "exited" /\ shutdown_initiated /\ joined /\ rabbitmq_queue # <<>>)
        => redis_epoch = rabbitmq_queue[Len(rabbitmq_queue)]

\* C34: every aggregate message a distributor published for a multi-project
\* aggregator bundles exactly one finalized message per awaited project: its
\* messages have one epoch id, their project ids are the awaited set, and no
\* project id comes twice, also when two finalized messages of one project and
\* epoch id that differ in their snapshot were delivered before the join.
C34_OneMessagePerProject ==
    \A self \in instances : \A k \in MultiConfigs :
        \A j \in AggregatePublishes(self, aggregator_config[k].project_type) :
            LET messages == dist[self].out[j].msg_body[1]
                R == Range(aggregator_config[k].projects_to_wait_for)
            IN /\ \A a, b \in BagToSet(messages) :
                     /\ a.epochId = b.epochId
                     /\ a.projectId = b.projectId => a = b
               /\ \A a \in BagToSet(messages) : messages[a] = 1
               /\ {a.projectId : a \in BagToSet(messages)} = R

\* The distributors that have taken their delivery, and the finalized messages
\* delivered so far: those of the earlier deliveries and those in hand.
Taken == {i \in instances : dist[i] # Fresh}
DeliveredBefore == PriorMessages(deliveries - Cardinality(Taken))

\* Every distributor has a well-formed finalized message in hand and, together
\* with the earlier deliveries, each project the aggregator of config k awaits
\* was delivered exactly once, all for one epoch id.
EachRequiredOnce(k) ==
    LET R == Range(aggregator_config[k].projects_to_wait_for)
    IN /\ Taken = instances
       /\ \A i \in instances : FinalizedInHand(i)
       /\ \A i \in instances : \A m \in DeliveredBefore :
             /\ FinalizedMsg(i).epochId = m.epochId
             /\ FinalizedMsg(i).projectId # m.projectId
       /\ \A i, j \in instances :
             /\ FinalizedMsg(i).epochId = FinalizedMsg(j).epochId
             /\ i # j => FinalizedMsg(i).projectId # FinalizedMsg(j).projectId
       /\ {m.projectId : m \in DeliveredBefore}
             \cup {FinalizedMsg(i).projectId : i \in instances} = R

\* The handler of distributor i has acked its delivery and returned.
Handled(i) == dist[i].pc = "idle" /\ dist[i].acks = 1

\* C32: two distributors handle, in any interleaving of their zadd, read and
\* delete on the store, the last finalized messages of an epoch id of which
\* every awaited project is delivered exactly once: when both deliveries are
\* handled, at least one aggregate message has been published.
C32_NoLostJoin ==
    \A k \in MultiConfigs :
        (EachRequiredOnce(k) /\ \A i \in instances : Handled(i))
            => \E i \in instances :
                  AggregatePublishes(i, aggregator_config[k].project_type) # {}

\* Both deliveries are handled, each awaited project came once, and the
\* distributor that read the full set has published the aggregate.
C32_Witness ==
    \E k \in MultiConfigs :
        /\ EachRequiredOnce(k)
        /\ \A i \in instances : Handled(i)
        /\ deliveries = Len(aggregator_config[k].projects_to_wait_for)
        /\ AggregatePublishes("d1", aggregator_config[k].project_type) # {}
        /\ AggregatePublishes("d2", aggregator_config[k].project_type) = {}

\* C33: with every awaited project delivered exactly once, the distributors
\* together publish at most one aggregate message for the aggregator and epoch
\* id, whatever the interleaving: never do two of them both read the complete
\* set and both publish.
C33_NoDuplicateJoin ==
    \A k \in MultiConfigs :
        EachRequiredOnce(k) =>
            LET t == aggregator_config[k].project_type
            IN /\ \A i \in instances : Cardinality(AggregatePublishes(i, t)) <= 1
               /\ \A i, j \in instances :
                     (AggregatePublishes(i, t) # {} /\ AggregatePublishes(j, t) # {})
                         => i = j

\* C35: an entry leaves a correlation set only when an aggregate message that
\* bundles it has been enqueued before; an entry another distributor added
\* between a distributor's read and its delete is not removed with the rest.
C35_NoEntryDiscardedUnseen ==
    [][\A k \in MultiConfigs :
          LET t == aggregator_config[k].project_type
          IN \A x \in BagToSet(aggregator_events[t]) :
                x \notin BagToSet(aggregator_events'[t])
                   => \E i \in instances : \E j \in AggregatePublishes(i, t) :
                         FinalizedParseRaw(x.member)
                            \in BagToSet(dist[i].out[j].msg_body[1])]_vars

====
